---------------------------- MODULE Spec2Model ----------------------------
(***************************************************************************)
(* A model of the MSL shader backend's variable allocator (VarAlloc) and   *)
(* of the Metal renderer (PipelineCache, CommandRecorder, rasterizer) of   *)
(* the suyu emulator.                                                      *)
(*                                                                         *)
(* Spec       the allocator driven by an emitter that respects the IR      *)
(*            contract: an instruction is defined at most once and is      *)
(*            consumed only after its definition, once per counted use.    *)
(* SpecApi    the allocator driven through its public interface with no    *)
(*            such discipline (ConsumeInst on any instruction).            *)
(* SpecCache  the pipeline cache driven by draws, dispatches and guest     *)
(*            register/memory changes.                                     *)
(* SpecDraw   the rasterizer's draws over frames, with the guest's render  *)
(*            targets changing.                                            *)
(* SpecKey    the cache keys' Hash and operator== applied to pairs of      *)
(*            keys.                                                        *)
(* SpecBind   the resource binding layout of the stages of one pipeline    *)
(*            build.                                                       *)
(* SpecEmit   EmitMSL on a program of loops with phis: Precolor, EmitCode  *)
(*            one allocator call at a time, DefineVariables.               *)
(* SpecInfo   the preamble of a stage: its constant buffer declarations    *)
(*            and global memory helpers.                                   *)
(* SpecAdd    the allocator with rules that define their result through    *)
(*            EmitContext::Add.                                            *)
(* SpecNest   EmitMSL on a program with nested control flow behind its     *)
(*            loop.                                                        *)
(* SpecBuild  CreateGraphicsPipeline's walk over the program slots of a    *)
(*            key.                                                         *)
(* SpecRecorder  the command recorder under the calls of its users.        *)
(* SpecParams MakeDrawParams applied to the draw state of a draw.          *)
(***************************************************************************)
EXTENDS Integers, Sequences, FiniteSets, TLC

\* ------------------------------------------------------------------ bounds
NumInsts == 3   \* instructions of the emitted IR program
MaxUses == 2    \* largest initial use count of an instruction
MaxOver == 1    \* calls of ConsumeInst beyond an instruction's use count
NumShaders == 2 \* distinct graphics shader sets the guest binds
NumKernels == 1 \* distinct compute shaders the guest launches
MaxByte == 1    \* largest value of a byte or field of a cache key
MaxDescs == 2   \* resource descriptors of one shader stage
MaxCount == 2   \* largest element count of a descriptor
MaxPhis == 2    \* loop-carried values (phis) of one loop
MaxLoops == 2   \* loops of the emitted IR program
MaxUsedSize == 17 \* largest used size of a constant buffer, in bytes
MaxBuffers == 2 \* storage buffer descriptors of one stage
MaxNodes == 4   \* syntax nodes behind the loops of the emitted program

Insts == 1..NumInsts

\* MslVarType values that own a UseTracker; the trackers are independent
\* and identical, two of the fourteen are modelled.
VarTypes == {"U32", "F32"}

\* IR::Type values handed to PhiDefine; "F16" stands for every IR type that
\* RegType does not map.
IRTypes == {"U32", "F32", "F16"}

\* The immediates that are consumed: true and 1u.
ImmValues ==
    {[imm |-> TRUE, type |-> "U1", val |-> 1],
     [imm |-> TRUE, type |-> "U32", val |-> 1]}

InstValues == {[imm |-> FALSE, inst |-> i] : i \in Insts}

VARIABLES
    use_count,    \* IR::Inst::use_count of every instruction
    definition,   \* IR::Inst::Definition<Id>() of every instruction
    emitted,      \* instructions whose EmitInst has run (emitter position)
    tracker,      \* VarAlloc's UseTracker of every type
    call,         \* the last call made on the allocator
    ret,          \* the string the last call returned
    fault         \* the exception that ended the emission, or "none"

allocVars == <<use_count, definition, emitted, tracker, call, ret, fault>>

VARIABLES
    regs,              \* guest 3D registers and shader memory
    draw_state,        \* DrawManager state read by BuiltPipeline
    launch,            \* guest compute launch description and shader
    graphics_key,      \* PipelineCache::graphics_key.unique_hashes
    graphics_cache,    \* PipelineCache::graphics_cache
    compute_cache,     \* PipelineCache::compute_cache
    pipelines,         \* the GraphicsPipeline objects created, by identity
    current_pipeline,  \* PipelineCache::current_pipeline (0 is nullptr)
    last,              \* the last request and what it returned
    terminated         \* std::terminate was called

cacheVars == <<regs, draw_state, launch, graphics_key, graphics_cache,
               compute_cache, pipelines, current_pipeline, last, terminated>>

VARIABLES
    framebuffer,       \* TextureCache::GetFramebuffer returns a framebuffer
    recorder,          \* CommandRecorder: encoder, render_state
    draw,              \* what the last RasterizerMetal::Draw did
    escaped            \* an exception has left RasterizerMetal::Draw

drawVars == <<framebuffer, recorder, draw, escaped>>

VARIABLES
    cmp                \* two cache keys and the outcome of comparing them

keyVars == <<cmp>>

VARIABLES
    bindings,          \* the Bindings shared by the stages of one build
    layout,            \* the slots given to descriptors, in order
    stages             \* the program slots emitted so far

bindVars == <<bindings, layout, stages>>

VARIABLES
    program,           \* the IR::Program being emitted
    settings,          \* Settings::values.disable_shader_loop_safety_checks
    pos,               \* the emitter's position in EmitMSL
    operands,          \* the operand strings of the instruction in hand
    code,              \* EmitContext::code, one element per line
    header,            \* the declarations DefineVariables writes
    num_safety_loop_vars, \* EmitContext::num_safety_loop_vars
    owner,             \* the instruction each variable was last allocated to
    inserted,          \* the instructions Precolor inserted, in order
    outputs            \* what the finished emissions returned

emitVars == <<program, settings, pos, operands, code, header,
              num_safety_loop_vars, owner, inserted, outputs>>

VARIABLES
    helpers,           \* a stage's Info and the declarations made from it
    pipeline_build,    \* CreateGraphicsPipeline's walk over the program slots
    draw_params        \* the arguments and the result of MakeDrawParams

infoVars == <<helpers, pipeline_build, draw_params>>

\* --------------------------------------------------------------- IR::Inst
\* Id{} : raw == 0, i.e. invalid, type U1 (enumerator 0), index 0
NullId == [is_valid |-> 0, type |-> "U1", index |-> 0]

HasUses(count) == count > 0

DestructiveRemoveUsage(count) == count - 1

\* --------------------------------------------------------------- VarAlloc
TypePrefix(type) ==
    CASE type = "U1" -> "b_"
      [] type = "U32" -> "u_"
      [] type = "F32" -> "f_"
      [] type = "Void" -> ""

Representation(index, type) == TypePrefix(type) \o ToString(index)

RepresentationId(id) == Representation(id.index, id.type)

MakeImm(value) ==
    CASE value.type = "U1" -> (IF value.val = 1 THEN "true" ELSE "false")
      [] value.type = "U32" -> ToString(value.val) \o "u"

NewTracker == [uses_temp |-> FALSE, num_used |-> 0, var_use |-> <<>>]

\* The loop of Alloc: the slots (0-based) whose flag is clear.
FreeSlots(var_use) == {v \in 0..(Len(var_use) - 1) : ~var_use[v + 1]}

Min(S) == CHOOSE m \in S : \A n \in S : m <= n

Max(a, b) == IF a >= b THEN a ELSE b

AllocHighestFree(tr, type) ==
    LET free == FreeSlots(tr.var_use) IN
    IF free # {}
    THEN LET var == CHOOSE m \in free : \A n \in free : m >= n IN
         [tracker |-> [tr EXCEPT !.num_used = Max(tr.num_used, var + 1),
                                 !.var_use[var + 1] = TRUE],
          id |-> [is_valid |-> 1, type |-> type, index |-> var]]
    ELSE [tracker |-> [tr EXCEPT !.var_use = Append(tr.var_use, TRUE),
                                 !.num_used = tr.num_used + 1],
          id |-> [is_valid |-> 1, type |-> type, index |-> tr.num_used]]

\* Alloc: first fit over the existing slots, else a new slot at num_used.
Alloc(tr, type) ==
    LET free == FreeSlots(tr.var_use) IN
    IF free # {}
    THEN LET var == Min(free) IN
         [tracker |-> [tr EXCEPT !.num_used = Max(tr.num_used, var + 1),
                                 !.var_use[var + 1] = TRUE],
          id |-> [is_valid |-> 1, type |-> type, index |-> var]]
    ELSE [tracker |-> [tr EXCEPT !.var_use = Append(tr.var_use, TRUE),
                                 !.num_used = tr.num_used + 1],
          id |-> [is_valid |-> 1, type |-> type, index |-> tr.num_used]]

FreeKeepsFlag(trs, id) ==
    IF id.is_valid = 0
    THEN [fault |-> "LogicError", tracker |-> trs]
    ELSE [fault |-> "none", tracker |-> trs]

\* Free: throws on an invalid id, else clears the slot's flag.
Free(trs, id) ==
    IF id.is_valid = 0
    THEN [fault |-> "LogicError", tracker |-> trs]
    ELSE [fault |-> "none",
          tracker |-> [trs EXCEPT ![id.type].var_use[id.index + 1] = FALSE]]

RegType(type) ==
    IF type \in {"U1", "U32", "F32", "U64", "F64"}
    THEN type
    ELSE "NotImplemented"

DefineTempAllocates(inst, type) ==
    /\ fault = "none"
    /\ LET a == Alloc(tracker[type], type) IN
       /\ tracker' = [tracker EXCEPT ![type] = a.tracker]
       /\ definition' = [definition EXCEPT ![inst] = a.id]
       /\ ret' = IF HasUses(use_count[inst])
                 THEN RepresentationId(a.id)
                 ELSE "t" \o RepresentationId(a.id)
    /\ emitted' = emitted \cup {inst}
    /\ call' = [op |-> "Define", inst |-> inst, type |-> type]
    /\ UNCHANGED <<use_count, fault>>

\* std::string VarAlloc::Define(IR::Inst& inst, MslVarType type)
Define(inst, type) ==
    /\ fault = "none"
    /\ IF HasUses(use_count[inst])
       THEN LET a == Alloc(tracker[type], type) IN
            /\ tracker' = [tracker EXCEPT ![type] = a.tracker]
            /\ definition' = [definition EXCEPT ![inst] = a.id]
            /\ ret' = RepresentationId(a.id)
       ELSE LET id == [NullId EXCEPT !.type = type] IN
            /\ tracker' = [tracker EXCEPT ![type].uses_temp = TRUE]
            /\ definition' = [definition EXCEPT ![inst] = id]
            /\ ret' = "t" \o RepresentationId(id)
    /\ emitted' = emitted \cup {inst}
    /\ call' = [op |-> "Define", inst |-> inst, type |-> type]
    /\ UNCHANGED <<use_count, fault>>

\* std::string VarAlloc::AddDefine(IR::Inst& inst, MslVarType type)
AddDefine(inst, type) ==
    /\ fault = "none"
    /\ IF HasUses(use_count[inst])
       THEN LET a == Alloc(tracker[type], type) IN
            /\ tracker' = [tracker EXCEPT ![type] = a.tracker]
            /\ definition' = [definition EXCEPT ![inst] = a.id]
            /\ ret' = RepresentationId(a.id)
       ELSE /\ ret' = ""
            /\ UNCHANGED <<tracker, definition>>
    /\ emitted' = emitted \cup {inst}
    /\ call' = [op |-> "AddDefine", inst |-> inst, type |-> type]
    /\ UNCHANGED <<use_count, fault>>

\* std::string VarAlloc::PhiDefine(IR::Inst& inst, IR::Type type)
PhiDefine(inst, type) ==
    /\ fault = "none"
    /\ IF RegType(type) = "NotImplemented"
       THEN /\ fault' = "NotImplemented"
            /\ UNCHANGED <<use_count, definition, tracker, ret, emitted>>
       ELSE /\ IF HasUses(use_count[inst])
               THEN LET a == Alloc(tracker[RegType(type)], RegType(type)) IN
                    /\ tracker' = [tracker EXCEPT ![RegType(type)] = a.tracker]
                    /\ definition' = [definition EXCEPT ![inst] = a.id]
                    /\ ret' = RepresentationId(a.id)
               ELSE /\ ret' = ""
                    /\ UNCHANGED <<tracker, definition>>
            /\ emitted' = emitted \cup {inst}
            /\ UNCHANGED <<use_count, fault>>
    /\ call' = [op |-> "PhiDefine", inst |-> inst, type |-> type]

ConsumeInstFreesEarly(inst) ==
    /\ fault = "none"
    /\ use_count' = [use_count EXCEPT ![inst] = DestructiveRemoveUsage(@)]
    /\ LET f == Free(tracker, definition[inst]) IN
       /\ fault' = f.fault
       /\ tracker' = f.tracker
       /\ ret' = IF f.fault = "none" THEN RepresentationId(definition[inst]) ELSE ret
    /\ call' = [op |-> "Consume", inst |-> inst, type |-> definition[inst].type]
    /\ UNCHANGED <<definition, emitted>>

\* std::string VarAlloc::ConsumeInst(IR::Inst& inst)
ConsumeInst(inst) ==
    /\ fault = "none"
    /\ use_count' = [use_count EXCEPT ![inst] = DestructiveRemoveUsage(@)]
    /\ IF ~HasUses(use_count'[inst])
       THEN LET f == Free(tracker, definition[inst]) IN
            /\ fault' = f.fault
            /\ tracker' = f.tracker
            /\ ret' = IF f.fault = "none"
                      THEN RepresentationId(definition[inst])
                      ELSE ret
       ELSE /\ ret' = RepresentationId(definition[inst])
            /\ UNCHANGED <<tracker, fault>>
    /\ call' = [op |-> "Consume", inst |-> inst, type |-> definition[inst].type]
    /\ UNCHANGED <<definition, emitted>>

\* std::string VarAlloc::Consume(const IR::Value& value)
Consume(value) ==
    IF value.imm
    THEN /\ fault = "none"
         /\ ret' = MakeImm(value)
         /\ call' = [op |-> "ConsumeImm", inst |-> 0, type |-> value.type]
         /\ UNCHANGED <<use_count, definition, emitted, tracker, fault>>
    ELSE ConsumeInst(value.inst)


\* ---------------------------------------------------------- PipelineCache
\* Maxwell::MaxShaderProgram program slots: 0 VertexA, 1 VertexB, ...,
\* 5 Fragment.
ProgramIndices == 0..5

\* The programs the modelled guest enables: VertexB and Fragment.
GuestPrograms == {1, 5}

\* The unique hashes of shader set s: set 1 is a vertex shader alone, the
\* others a vertex and a fragment shader.
ShaderHashes(s) ==
    [index \in ProgramIndices |->
        IF index = 1 THEN s
        ELSE IF index = 5 /\ s > 1 THEN 100 + s
        ELSE 0]

NoHashes == [index \in ProgramIndices |-> 0]

\* ShaderCache::RefreshStages: the content hash of every enabled program,
\* read from current guest memory; fails when a shader address is unmapped.
RefreshStages(r, unique_hashes) ==
    IF r.mapped
    THEN [ok |-> TRUE, unique_hashes |-> ShaderHashes(r.shaders)]
    ELSE [ok |-> FALSE, unique_hashes |-> unique_hashes]

\* GraphicsPipeline::IsBuilt
IsBuilt(pipeline) == pipeline.pipeline_state

PipelineNextIgnoresKey(pipeline, key) ==
    CHOOSE p \in 1..Len(pipelines) : pipelines[p] = pipeline

\* GraphicsPipeline::Next: the transition recorded for the key, or nullptr.
PipelineNext(pipeline, key) ==
    IF key \in DOMAIN pipeline.transitions
    THEN pipeline.transitions[key]
    ELSE 0

\* PipelineCache::BuiltPipeline, of pipeline p among the objects ps
BuiltPipelineOf(ps, p) ==
    IF IsBuilt(ps[p])
    THEN p
    ELSE IF draw_state.index_count <= 6 \/ draw_state.vertex_count <= 6
         THEN p
         ELSE 0

BuiltPipeline(p) == BuiltPipelineOf(pipelines, p)

\* What the external collaborators do during one build: the first call
\* that fails, if any (TranslateProgram or EmitMSL throwing for a program
\* slot, or newLibrary setting its error for it) and whether the host
\* accepts the pipeline descriptor.
BuildSteps == {"translate", "emit", "compile"}

BuildInputs ==
    [fails : {[step |-> "none", index |-> 0]}
                 \cup [step : BuildSteps, index : GuestPrograms],
     host_ok : BOOLEAN]

ActivePrograms(key) == {index \in GuestPrograms : key[index] # 0}

\* GraphicsPipeline::GraphicsPipeline and MakePipeline: the host
\* pipeline state is made only when a framebuffer is available, and is
\* null when newRenderPipelineState fails. shaders records the guest code
\* the functions were translated from.
NewGraphicsPipeline(key, b) ==
    [key |-> key,
     shaders |-> regs.shaders,
     made |-> framebuffer,
     pipeline_state |-> framebuffer /\ b.host_ok,
     transitions |-> <<>>]

CreateGraphicsPipelineUncaught(key, b) ==
    IF b.fails.step = "none" \/ b.fails.index \notin ActivePrograms(key)
    THEN [outcome |-> "ok", result |-> "pipeline"]
    ELSE IF b.fails.step \in {"translate", "emit"}
         THEN [outcome |-> "exception", result |-> "terminate"]
         ELSE [outcome |-> "rejected", result |-> "terminate"]

\* PipelineCache::CreateGraphicsPipeline(pools, key, envs): the programs
\* with a non-zero hash are translated, then each is emitted and compiled.
\* A std::exception is caught and gives nullptr; a compile error executes
\* "throw;" with no exception being handled, which calls std::terminate.
CreateGraphicsPipeline(key, b) ==
    IF b.fails.step = "none" \/ b.fails.index \notin ActivePrograms(key)
    THEN [outcome |-> "ok", result |-> "pipeline"]
    ELSE IF b.fails.step \in {"translate", "emit"}
         THEN [outcome |-> "exception", result |-> "nullptr"]
         ELSE [outcome |-> "rejected", result |-> "terminate"]

\* PipelineCache::CreateComputePipeline(pools, key, env): throws
\* std::runtime_error, which its handler turns into nullptr.
CreateComputePipeline(key) == [outcome |-> "exception", result |-> "nullptr"]

Seq2(op, key) ==
    IF last.op = op /\ last.key = key /\ last.seq >= 1 THEN 2 ELSE 1

\* The request's record: what was asked, what was built, what came back.
Returned(op, key, build, value) ==
    [op |-> op, key |-> key, seq |-> Seq2(op, key), build |-> build, ret |-> value]

EmplacedClearsOthers(cache, key, value) ==
    [k \in DOMAIN cache \cup {key} |-> IF k = key THEN value ELSE 0]

\* The cache with the entry of key set to value (try_emplace, then the
\* assignment through the reference).
Emplaced(cache, key, value) ==
    [k \in DOMAIN cache \cup {key} |-> IF k = key THEN value ELSE cache[k]]

\* The is_new branch of CurrentGraphicsPipelineSlowPath and what follows
\* it: the entry is emplaced empty and assigned the build's result.
BuildGraphicsPipeline(b) ==
    LET c == CreateGraphicsPipeline(graphics_key', b)
        id == Len(pipelines) + 1
    IN IF c.result = "terminate"
       THEN /\ graphics_cache' = Emplaced(graphics_cache, graphics_key', 0)
            /\ terminated' = TRUE
            /\ last' = Returned("graphics", graphics_key', c.outcome, 0)
            /\ UNCHANGED <<pipelines, current_pipeline>>
       ELSE IF c.result = "nullptr"
            THEN /\ graphics_cache' = Emplaced(graphics_cache, graphics_key', 0)
                 /\ last' = Returned("graphics", graphics_key', c.outcome, 0)
                 /\ UNCHANGED <<pipelines, current_pipeline, terminated>>
            ELSE /\ pipelines' = Append(pipelines, NewGraphicsPipeline(graphics_key', b))
                 /\ graphics_cache' = Emplaced(graphics_cache, graphics_key', id)
                 /\ current_pipeline' = id
                 /\ last' = Returned("graphics", graphics_key', c.outcome,
                                     BuiltPipelineOf(pipelines', id))
                 /\ UNCHANGED terminated

\* The branch of CurrentGraphicsPipelineSlowPath for a key that has an entry.
ReuseGraphicsPipeline ==
    IF graphics_cache[graphics_key'] = 0
    THEN /\ last' = Returned("graphics", graphics_key', "none", 0)
         /\ UNCHANGED <<graphics_cache, pipelines, current_pipeline, terminated>>
    ELSE /\ current_pipeline' = graphics_cache[graphics_key']
         /\ last' = Returned("graphics", graphics_key', "none",
                             BuiltPipeline(current_pipeline'))
         /\ UNCHANGED <<graphics_cache, pipelines, terminated>>

SlowPathAlwaysBuilds(b) == BuildGraphicsPipeline(b)

SlowPathRetriesFailed(b) ==
    IF \/ graphics_key' \notin DOMAIN graphics_cache
       \/ graphics_cache[graphics_key'] = 0
    THEN BuildGraphicsPipeline(b)
    ELSE ReuseGraphicsPipeline

\* PipelineCache::CurrentGraphicsPipelineSlowPath, with graphics_key' the key
\* that RefreshStages has just filled in.
CurrentGraphicsPipelineSlowPath(b) ==
    IF graphics_key' \notin DOMAIN graphics_cache
    THEN BuildGraphicsPipeline(b)
    ELSE ReuseGraphicsPipeline

CurrentGraphicsPipelineWithoutRefresh(b) ==
    /\ ~terminated
    /\ graphics_key' = IF graphics_key = NoHashes
                       THEN RefreshStages(regs, graphics_key).unique_hashes
                       ELSE graphics_key
    /\ CurrentGraphicsPipelineSlowPath(b)
    /\ UNCHANGED <<regs, draw_state, launch, compute_cache>>

\* GraphicsPipeline* PipelineCache::CurrentGraphicsPipeline()
CurrentGraphicsPipeline(b) ==
    /\ ~terminated
    /\ LET r == RefreshStages(regs, graphics_key) IN
       /\ graphics_key' = r.unique_hashes
       /\ IF ~r.ok
          THEN /\ current_pipeline' = 0
               /\ last' = Returned("graphics", NoHashes, "none", 0)
               /\ UNCHANGED <<graphics_cache, pipelines, terminated>>
          ELSE IF /\ current_pipeline # 0
                  /\ PipelineNext(pipelines[current_pipeline], graphics_key') # 0
               THEN /\ current_pipeline' =
                           PipelineNext(pipelines[current_pipeline], graphics_key')
                    /\ last' = Returned("graphics", graphics_key', "none",
                                        BuiltPipeline(current_pipeline'))
                    /\ UNCHANGED <<graphics_cache, pipelines, terminated>>
               ELSE CurrentGraphicsPipelineSlowPath(b)
    /\ UNCHANGED <<regs, draw_state, launch, compute_cache>>

\* ShaderCache::ComputeShader: the shader at the launch's program address,
\* nullptr when there is none.
ComputeShader(l) == l.shader

ComputeKeyWithGrid(l) ==
    [unique_hash |-> ComputeShader(l),
     shared_memory_size |-> l.shared_alloc + l.grid_dim_x,
     threadgroup_size |-> <<l.block_dim_x, l.block_dim_y, l.block_dim_z>>]

ComputeKey(l) ==
    [unique_hash |-> ComputeShader(l),
     shared_memory_size |-> l.shared_alloc,
     threadgroup_size |-> <<l.block_dim_x, l.block_dim_y, l.block_dim_z>>]

\* ComputePipeline* PipelineCache::CurrentComputePipeline()
CurrentComputePipeline ==
    /\ ~terminated
    /\ IF ComputeShader(launch) = 0
       THEN /\ last' = Returned("compute", ComputeKey(launch), "none", 0)
            /\ UNCHANGED compute_cache
       ELSE LET key == ComputeKey(launch) IN
            IF key \in DOMAIN compute_cache
            THEN /\ last' = Returned("compute", key, "none", compute_cache[key])
                 /\ UNCHANGED compute_cache
            ELSE LET c == CreateComputePipeline(key) IN
                 /\ compute_cache' = Emplaced(compute_cache, key, 0)
                 /\ last' = Returned("compute", key, c.outcome, 0)
    /\ UNCHANGED <<regs, draw_state, launch, graphics_key, graphics_cache,
                   pipelines, current_pipeline, terminated>>

NoRequest == [op |-> "guest", key |-> NoHashes, seq |-> 0, build |-> "none", ret |-> 0]

\* The guest binds other shaders, or unmaps the shader region.
GuestSetShaders ==
    /\ ~terminated
    /\ \E s \in 1..NumShaders, m \in BOOLEAN :
           /\ regs' = [regs EXCEPT !.shaders = s, !.mapped = m]
           /\ regs' # regs
    /\ last' = NoRequest
    /\ UNCHANGED <<draw_state, launch, graphics_key, graphics_cache,
                   compute_cache, pipelines, current_pipeline, terminated>>

\* The guest writes bytes of the shader region that no program's hash
\* covers.
GuestSetPadding ==
    /\ ~terminated
    /\ regs' = [regs EXCEPT !.padding = ~regs.padding]
    /\ UNCHANGED <<draw_state, launch, graphics_key, graphics_cache,
                   compute_cache, pipelines, current_pipeline, last, terminated>>

\* The guest changes the vertex and index counts of the next draw.
GuestSetDrawState ==
    /\ ~terminated
    /\ \E n \in {6, 7} :
           /\ draw_state' = [index_count |-> n, vertex_count |-> n]
           /\ draw_state' # draw_state
    /\ last' = NoRequest
    /\ UNCHANGED <<regs, launch, graphics_key, graphics_cache, compute_cache,
                   pipelines, current_pipeline, terminated>>

\* The guest sets up another compute launch.
GuestSetLaunch ==
    /\ ~terminated
    /\ \E s \in 0..NumKernels :
           /\ launch' = [launch EXCEPT !.shader = s]
           /\ launch' # launch
    /\ last' = NoRequest
    /\ UNCHANGED <<regs, draw_state, graphics_key, graphics_cache,
                   compute_cache, pipelines, current_pipeline, terminated>>

InitCache ==
    /\ regs = [shaders |-> 1, mapped |-> TRUE, padding |-> FALSE]
    /\ draw_state = [index_count |-> 6, vertex_count |-> 6]
    /\ launch = [shader |-> 0, shared_alloc |-> 0,
                 block_dim_x |-> 1, block_dim_y |-> 1, block_dim_z |-> 1]
    /\ graphics_key = NoHashes
    /\ graphics_cache = <<>>
    /\ compute_cache = <<>>
    /\ pipelines = <<>>
    /\ current_pipeline = 0
    /\ last = NoRequest
    /\ terminated = FALSE

\* The collaborators are only consulted by a request that builds.
NoBuild ==
    [fails |-> [step |-> "none", index |-> 0],
     host_ok |-> TRUE]

RequestBuilds ==
    /\ RefreshStages(regs, graphics_key).ok
    /\ RefreshStages(regs, graphics_key).unique_hashes \notin DOMAIN graphics_cache

\* The stages bind_resources binds, the buffer indices and the buffers
\* and offsets of the modelled calls; 0 stands for nullptr.
BoundStages == {0, 4}
BufferIndices == {0}
BufferSlots == BoundStages \X BufferIndices
BufferHandles == {1, 2}
BufferOffsets == {0, 1}

\* BoundBuffer{}: needs_update{true}, buffer{nullptr}, offset{0}
NewBoundBuffer == [needs_update |-> TRUE, buffer |-> 0, offset |-> 0]

\* No buffer has been set on a render command encoder.
NoArguments == [slot \in BufferSlots |-> <<0, 0>>]

\* The member function called last, with its arguments.
Called(op, args) == [op |-> op, args |-> args]

\* CommandRecorder after construction: command_buffer{nullptr},
\* encoder{nullptr}, render_state{}.  encoder holds the type of the
\* encoder, "none" for nullptr: encoder_type is only read behind a non-null
\* encoder.  open_encoders counts the encoders of the command buffer that
\* were created and have not ended, descriptor is the descriptor the render
\* encoder was created from, arguments the buffers set on it.
NewRecorder ==
    [command_buffer |-> 0, encoder |-> "none", render_pass |-> 0,
     pipeline_state |-> 0,
     buffers |-> [slot \in BufferSlots |-> NewBoundBuffer],
     open_encoders |-> 0, descriptor |-> 0, arguments |-> NoArguments,
     call |-> Called("none", <<>>)]

\* CommandRecorder::RequireCommandBuffer
RequireCommandBuffer(rec) ==
    IF rec.command_buffer = 0 THEN [rec EXCEPT !.command_buffer = 1] ELSE rec

EndEncodingKeepsRenderState(rec) ==
    IF rec.encoder = "none"
    THEN rec
    ELSE [rec EXCEPT !.encoder = "none", !.open_encoders = @ - 1,
                     !.descriptor = 0]

\* CommandRecorder::EndEncoding
EndEncoding(rec) ==
    IF rec.encoder = "none"
    THEN rec
    ELSE IF rec.encoder = "render"
         THEN [rec EXCEPT !.encoder = "none", !.open_encoders = @ - 1,
                          !.descriptor = 0,
                          !.render_pass = 0, !.pipeline_state = 0]
         ELSE [rec EXCEPT !.encoder = "none", !.open_encoders = @ - 1]

\* bind_resources(0) and bind_resources(4): a buffer that is set and needs
\* an update, or any buffer that is set when the encoder is new, is set on
\* the render command encoder.
BindResources(rec, should_reset_bound_resources) ==
    LET bound == {slot \in BufferSlots :
                     /\ rec.buffers[slot].buffer # 0
                     /\ \/ rec.buffers[slot].needs_update
                        \/ should_reset_bound_resources}
    IN  [rec EXCEPT
            !.arguments = [slot \in BufferSlots |->
                              IF slot \in bound
                              THEN <<rec.buffers[slot].buffer,
                                     rec.buffers[slot].offset>>
                              ELSE @[slot]],
            !.buffers = [slot \in BufferSlots |->
                            IF slot \in bound
                            THEN [@[slot] EXCEPT !.needs_update = FALSE]
                            ELSE @[slot]]]

\* CommandRecorder::BeginOrContinueRenderPass
BeginOrContinueRenderPass(rec, render_pass) ==
    LET should_reset_bound_resources == render_pass # rec.render_pass
        begun == IF should_reset_bound_resources
                 THEN [RequireCommandBuffer(EndEncoding(rec)) EXCEPT
                          !.encoder = "render",
                          !.open_encoders = @ + 1,
                          !.descriptor = render_pass,
                          !.arguments = NoArguments,
                          !.render_pass = render_pass]
                 ELSE rec
        bound == BindResources(begun, should_reset_bound_resources)
    IN  IF should_reset_bound_resources
        THEN [bound EXCEPT
                 !.buffers = [slot \in BufferSlots |->
                                 [@[slot] EXCEPT !.buffer = 0]]]
        ELSE bound

\* CommandRecorder::RequireComputeEncoder and RequireBlitEncoder
RequireEncoder(rec, type) ==
    LET buffered == RequireCommandBuffer(rec) IN
    IF buffered.encoder # type
    THEN [EndEncoding(buffered) EXCEPT !.encoder = type,
                                       !.open_encoders = @ + 1]
    ELSE buffered

\* CommandRecorder::CheckIfRenderPassIsActive: TRUE when it throws.
CheckIfRenderPassIsActive(rec) == rec.encoder # "render"

\* CommandRecorder::SetRenderPipelineState: GetRenderCommandEncoder throws
\* before the state is recorded.
SetRenderPipelineState(rec, pipeline_state) ==
    IF pipeline_state # rec.pipeline_state
    THEN IF CheckIfRenderPassIsActive(rec)
         THEN [rec |-> rec, threw |-> TRUE]
         ELSE [rec |-> [rec EXCEPT !.pipeline_state = pipeline_state],
               threw |-> FALSE]
    ELSE [rec |-> rec, threw |-> FALSE]

\* CommandRecorder::SetBuffer
SetBuffer(rec, stage, buffer, index, offset) ==
    IF buffer # rec.buffers[<<stage, index>>].buffer
    THEN [rec EXCEPT !.buffers[<<stage, index>>] =
                         [needs_update |-> TRUE, buffer |-> buffer,
                          offset |-> offset]]
    ELSE rec

\* The framebuffer's render pass descriptor (Framebuffer::GetHandle).
FramebufferHandle == 1

\* The pipeline_state member of pipeline p among the objects ps: the
\* object of p when it exists, 0 for nullptr.
PipelineStateOf(ps, p) == IF ps[p].pipeline_state THEN p ELSE 0

\* GraphicsPipeline::Configure: after the resources are bound, the render
\* pass is begun and the pipeline state set, unless there is no
\* framebuffer. Nothing in it assigns pipeline_state.
Configure(rec, ps, p) ==
    IF ~framebuffer
    THEN [rec |-> rec, threw |-> FALSE]
    ELSE SetRenderPipelineState(BeginOrContinueRenderPass(rec, FramebufferHandle),
                                PipelineStateOf(ps, p))

\* RasterizerMetal::Draw: the pipeline is requested; without one the draw
\* is skipped, otherwise the pipeline is configured and the draw command
\* is encoded on the render command encoder.
Draw ==
    /\ ~escaped
    /\ \E b \in IF RequestBuilds THEN BuildInputs ELSE {NoBuild} :
           CurrentGraphicsPipeline(b)
    /\ IF terminated'
       THEN /\ draw' = "none"
            /\ UNCHANGED <<recorder, escaped>>
       ELSE IF last'.ret = 0
            THEN /\ draw' = "skipped"
                 /\ UNCHANGED <<recorder, escaped>>
            ELSE LET c == Configure(recorder, pipelines', last'.ret) IN
                 /\ recorder' = [c.rec EXCEPT !.call =
                                    Called(IF c.threw
                                           THEN "SetRenderPipelineState"
                                           ELSE "GetRenderCommandEncoder",
                                           <<>>)]
                 /\ IF c.threw \/ CheckIfRenderPassIsActive(c.rec)
                    THEN draw' = "threw" /\ escaped' = TRUE
                    ELSE draw' = "issued" /\ UNCHANGED escaped
    /\ UNCHANGED <<framebuffer, allocVars, keyVars, bindVars, emitVars, infoVars>>

\* A compute dispatch requests the compute pipeline.
Dispatch ==
    /\ ~escaped
    /\ CurrentComputePipeline
    /\ draw' = "none"
    /\ UNCHANGED <<framebuffer, recorder, escaped, allocVars, keyVars, bindVars, emitVars, infoVars>>

GuestShaders ==
    /\ ~escaped
    /\ GuestSetShaders
    /\ draw' = "none"
    /\ UNCHANGED <<framebuffer, recorder, escaped, allocVars, keyVars, bindVars, emitVars, infoVars>>

GuestDrawState ==
    /\ ~escaped
    /\ GuestSetDrawState
    /\ draw' = "none"
    /\ UNCHANGED <<framebuffer, recorder, escaped, allocVars, keyVars, bindVars, emitVars, infoVars>>

GuestLaunch ==
    /\ ~escaped
    /\ GuestSetLaunch
    /\ draw' = "none"
    /\ UNCHANGED <<framebuffer, recorder, escaped, allocVars, keyVars, bindVars, emitVars, infoVars>>

GuestPadding ==
    /\ ~escaped
    /\ GuestSetPadding
    /\ UNCHANGED <<drawVars, allocVars, keyVars, bindVars, emitVars, infoVars>>

\* The guest binds or unbinds its render targets.
GuestFramebuffer ==
    /\ ~escaped /\ ~terminated
    /\ framebuffer' = ~framebuffer
    /\ last' = NoRequest
    /\ draw' = "none"
    /\ UNCHANGED <<regs, draw_state, launch, graphics_key, graphics_cache,
                   compute_cache, pipelines, current_pipeline, terminated>>
    /\ UNCHANGED <<recorder, escaped, allocVars, keyVars, bindVars, emitVars, infoVars>>

\* CommandRecorder::Submit at the end of a frame.
Submit ==
    /\ ~escaped /\ ~terminated
    /\ recorder.command_buffer # 0
    /\ recorder' = [EndEncoding(recorder) EXCEPT
                        !.command_buffer = 0,
                        !.call = Called("Submit", <<>>)]
    /\ last' = NoRequest
    /\ draw' = "none"
    /\ UNCHANGED <<regs, draw_state, launch, graphics_key, graphics_cache,
                   compute_cache, pipelines, current_pipeline, terminated>>
    /\ UNCHANGED <<framebuffer, escaped, allocVars, keyVars, bindVars, emitVars, infoVars>>

\* ------------------------------------------- CommandRecorder's interface
\* The render pass descriptors and pipeline states of the modelled calls.
RenderPasses == {1, 2}
PipelineStates == {1, 2}

\* A member function of the recorder is called: rec is the recorder it
\* leaves behind.
RecorderCalled(rec, op, args) ==
    /\ ~escaped /\ ~terminated
    /\ recorder' = [rec EXCEPT !.call = Called(op, args)]
    /\ UNCHANGED <<framebuffer, draw, escaped, allocVars, keyVars, bindVars,
                   emitVars, infoVars>>

CallBeginOrContinueRenderPass ==
    \E render_pass \in RenderPasses :
        /\ RecorderCalled(BeginOrContinueRenderPass(recorder, render_pass),
                          "BeginOrContinueRenderPass", <<render_pass>>)
        /\ UNCHANGED cacheVars

\* GetComputeCommandEncoder
CallRequireComputeEncoder ==
    /\ RecorderCalled(RequireEncoder(recorder, "compute"),
                      "RequireComputeEncoder", <<>>)
    /\ UNCHANGED cacheVars

\* GetBlitCommandEncoder
CallRequireBlitEncoder ==
    /\ RecorderCalled(RequireEncoder(recorder, "blit"),
                      "RequireBlitEncoder", <<>>)
    /\ UNCHANGED cacheVars

CallEndEncoding ==
    /\ RecorderCalled(EndEncoding(recorder), "EndEncoding", <<>>)
    /\ UNCHANGED cacheVars

\* CommandRecorder::Present: the encoder is ended and the drawable
\* presented on command_buffer; through a null command_buffer the call is
\* undefined, it returns or the process stops.
CallPresent ==
    /\ RecorderCalled(EndEncoding(recorder), "Present", <<>>)
    /\ terminated' \in IF recorder.command_buffer = 0 THEN BOOLEAN ELSE {FALSE}
    /\ UNCHANGED <<regs, draw_state, launch, graphics_key, graphics_cache,
                   compute_cache, pipelines, current_pipeline, last>>

CallSetRenderPipelineState ==
    \E pipeline_state \in PipelineStates :
        /\ RecorderCalled(SetRenderPipelineState(recorder, pipeline_state).rec,
                          "SetRenderPipelineState", <<pipeline_state>>)
        /\ UNCHANGED cacheVars

CallSetBuffer ==
    \E slot \in BufferSlots, buffer \in BufferHandles, offset \in BufferOffsets :
        /\ RecorderCalled(SetBuffer(recorder, slot[1], buffer, slot[2], offset),
                          "SetBuffer", <<slot[1], buffer, slot[2], offset>>)
        /\ UNCHANGED cacheVars

InitDraw ==
    /\ framebuffer = FALSE
    /\ recorder = NewRecorder
    /\ draw = "none"
    /\ escaped = FALSE

\* ------------------------------------------------------ pipeline cache keys
ByteValues == 0..MaxByte

\* The storage of a GraphicsPipelineCacheKey, as bytes: the unique hashes,
\* the byte of the fixed state that selects its size, and the tail of the
\* fixed state.
GraphicsKeys == [1..3 -> ByteValues]

\* GraphicsPipelineCacheKey::Size: the meaningful prefix of the storage.
Size(key) == IF key[2] = 0 THEN 3 ELSE 2

\* The first n bytes at an address.
Bytes(key, n) == SubSeq(key, 1, n)

\* Common::CityHash64: a 64-bit value computed from the bytes alone; two
\* byte strings can share it.
RECURSIVE CityHash64(_)
CityHash64(bytes) ==
    IF bytes = <<>>
    THEN 5
    ELSE (3 * CityHash64(Tail(bytes)) + Head(bytes) + 1) % 7

GraphicsKeyHashOfStorage(key) == CityHash64(key)

\* GraphicsPipelineCacheKey::Hash
GraphicsKeyHash(key) == CityHash64(Bytes(key, Size(key)))

\* GraphicsPipelineCacheKey::operator==
GraphicsKeyEq(this, rhs) == Bytes(rhs, Size(this)) = Bytes(this, Size(this))

\* The object representation of a ComputePipelineCacheKey: the members
\* follow each other with no padding.
ComputeKeyBytes(key) ==
    <<key.unique_hash, key.shared_memory_size>> \o key.threadgroup_size

\* ComputePipelineCacheKey::Hash
ComputeKeyHash(key) == CityHash64(ComputeKeyBytes(key))

\* ComputePipelineCacheKey::operator==
ComputeKeyEq(this, rhs) == ComputeKeyBytes(rhs) = ComputeKeyBytes(this)

\* The launch descriptions the keys are made from: the five values of the
\* key and one register that is no part of it.
Launches ==
    [shader : 1..NumKernels, shared_alloc : ByteValues,
     block_dim_x : ByteValues, block_dim_y : {1}, block_dim_z : {1},
     grid_dim_x : ByteValues]

NoCompare == [phase |-> "idle"]

IdleKey == cmp = NoCompare

InitKey ==
    cmp \in [phase : {"input"}, kind : {"graphics"},
             a : GraphicsKeys, b : GraphicsKeys]
            \cup [phase : {"input"}, kind : {"compute"},
                  a : Launches, b : Launches]

Compared(kind, a, b, eq_aa, eq_ab, eq_ba, hash_a, hash_b) ==
    [phase |-> "done", kind |-> kind, a |-> a, b |-> b,
     eq_aa |-> eq_aa, eq_ab |-> eq_ab, eq_ba |-> eq_ba,
     hash_a |-> hash_a, hash_b |-> hash_b]

\* Two graphics keys are hashed and compared, as the cache's map does.
CompareGraphicsKeys ==
    /\ cmp.phase = "input" /\ cmp.kind = "graphics"
    /\ cmp' = Compared("graphics", cmp.a, cmp.b,
                       GraphicsKeyEq(cmp.a, cmp.a),
                       GraphicsKeyEq(cmp.a, cmp.b),
                       GraphicsKeyEq(cmp.b, cmp.a),
                       GraphicsKeyHash(cmp.a), GraphicsKeyHash(cmp.b))
    /\ UNCHANGED <<allocVars, cacheVars, drawVars, bindVars, emitVars, infoVars>>

\* The keys of two launch descriptions are made, hashed and compared.
CompareComputeKeys ==
    /\ cmp.phase = "input" /\ cmp.kind = "compute"
    /\ LET a == ComputeKey(cmp.a)
           b == ComputeKey(cmp.b)
       IN cmp' = Compared("compute", cmp.a, cmp.b,
                          ComputeKeyEq(a, a), ComputeKeyEq(a, b),
                          ComputeKeyEq(b, a),
                          ComputeKeyHash(a), ComputeKeyHash(b))
    /\ UNCHANGED <<allocVars, cacheVars, drawVars, bindVars, emitVars, infoVars>>

\* ------------------------------------------------------ resource bindings
\* The counters of Bindings, in the order DefineInputs lays the classes
\* of descriptors out.
Classes == <<"uniform_buffer", "storage_buffer", "image", "texture">>

ClassRank(class) == CHOOSE r \in DOMAIN Classes : Classes[r] = class

\* The descriptors of a stage's Info that take binding slots, as one
\* sequence with the classes' lists one after the other; only the element
\* count of a descriptor matters to the layout.
Descriptors ==
    [class : {Classes[r] : r \in DOMAIN Classes}, count : 1..MaxCount]

Infos ==
    {info \in UNION {[1..n -> Descriptors] : n \in 0..MaxDescs} :
        \A i, j \in DOMAIN info :
            i < j => ClassRank(info[i].class) <= ClassRank(info[j].class)}

AdvanceByOne(b, class, count) == [b EXCEPT ![class] = @ + 1]

\* "bindings.<class> += desc.count"
Advance(b, class, count) == [b EXCEPT ![class] = @ + count]

\* The loops over the descriptor lists, which both DefineInputs share: each
\* descriptor takes the slot its class's counter holds and advances the
\* counter by its count.
RECURSIVE LayOut(_, _, _, _)
LayOut(info, b, stage, by) ==
    IF info = <<>>
    THEN [bindings |-> b, assigned |-> <<>>]
    ELSE LET desc == Head(info)
             rest == LayOut(Tail(info),
                            Advance(b, desc.class, desc.count), stage, by)
         IN [bindings |-> rest.bindings,
             assigned |-> <<[stage |-> stage, by |-> by,
                             class |-> desc.class,
                             slot |-> b[desc.class],
                             count |-> desc.count]>> \o rest.assigned]

\* EmitContext::DefineInputs, called by the constructor of EmitContext.
EmitContextDefineInputs(info, b, stage) == LayOut(info, b, stage, "EmitContext")

\* DefineInputs of emit_msl.cpp, called by EmitMSL on the constructed
\* context.
DefineInputs(info, b, stage) == LayOut(info, b, stage, "EmitMSL")

\* The attribute a declaration of the class carries in the signature of
\* main_: "[[buffer({})]]" for constant and storage buffers,
\* "[[texture({})]]" for images and textures.
AttributeKind(class) ==
    IF class \in {"uniform_buffer", "storage_buffer"} THEN "buffer" ELSE "texture"

\* ctx.images and ctx.textures of a stage's context: an entry
\* {binding, count} is pushed wherever a DefineInputs lays out a descriptor
\* of the class ("images.push_back({bindings.image, desc.count})").
Table(assigned, stage, class) ==
    LET pushed == SelectSeq(assigned,
                            LAMBDA e : e.stage = stage /\ e.class = class)
    IN [i \in DOMAIN pushed |->
           [binding |-> pushed[i].slot, count |-> pushed[i].count]]

\* The next program of the build's loop, in ascending slot order.
NextStage == {index \in GuestPrograms \ stages :
                 \A other \in GuestPrograms \ stages : index <= other}

\* EmitMSL for one stage of CreateGraphicsPipeline's loop: the context is
\* constructed, then the inputs are defined.
EmitMSL ==
    /\ \E index \in NextStage, info \in Infos :
           LET ctx == EmitContextDefineInputs(info, bindings, index)
               inputs == DefineInputs(info, ctx.bindings, index)
           IN /\ bindings' = inputs.bindings
              /\ layout' = layout \o ctx.assigned \o inputs.assigned
              /\ stages' = stages \cup {index}
    /\ UNCHANGED <<allocVars, cacheVars, drawVars, keyVars, emitVars, infoVars>>

\* "Shader::Backend::Bindings binding;" before the loop.
InitBind ==
    /\ bindings = [class \in {Classes[r] : r \in DOMAIN Classes} |-> 0]
    /\ layout = <<>>
    /\ stages = {}

\* ------------------------------------------------------------ IR::Program
\* The emitted programs: a run of loops, each carrying `phis` values. Of
\* loop l, x (l, k) is the value defined before the loop (absent when the
\* phi's first argument is an immediate), p (l, k) the phi at the head of
\* the loop, y (l, k) the value redefined inside it and z (l, k) the
\* instruction that reads phi k after the loop; c is the condition of
\* every loop.
ProgramShapes ==
    [phis : 1..MaxPhis, loops : 1..MaxLoops, imm : BOOLEAN, post : BOOLEAN,
     nodes : {<<>>}]

\* The identity of an IR::Inst object.
InstId(n, l, k, a) == [n |-> n, l |-> l, k |-> k, a |-> a]

Cond == InstId("c", 0, 0, 0)

Imm1 == [imm |-> TRUE, type |-> "U32", val |-> 1]

InstValue(i) == [imm |-> FALSE, inst |-> i]

\* Block 0 is the entry block; loop l owns the blocks 3l-2 (its head),
\* 3l-1 (its body) and 3l (the block after it).
BlockOf(l, j) == 3 * (l - 1) + j

ShapeInsts(shape) ==
    {Cond}
    \cup {InstId(n, l, k, 0) :
             n \in ({"p", "y"}
                    \cup (IF shape.imm THEN {} ELSE {"x"})
                    \cup (IF shape.post THEN {"z"} ELSE {})),
             l \in 1..shape.loops, k \in 1..shape.phis}

ShapeInst(shape, id) ==
    CASE id.n = "c" ->
           [op |-> "UndefU1", args |-> <<>>, phi_blocks |-> <<>>]
      [] id.n = "x" ->
           [op |-> "UndefU32", args |-> <<>>, phi_blocks |-> <<>>]
      [] id.n = "p" ->
           [op |-> "Phi",
            args |-> <<IF shape.imm
                       THEN Imm1
                       ELSE InstValue(InstId("x", id.l, id.k, 0)),
                       InstValue(InstId("y", id.l, id.k, 0))>>,
            phi_blocks |-> <<BlockOf(id.l, 0), BlockOf(id.l, 2)>>]
      [] id.n \in {"y", "z"} ->
           [op |-> "SelectU32",
            args |-> <<InstValue(Cond),
                       InstValue(InstId("p", id.l, id.k, 0)), Imm1>>,
            phi_blocks |-> <<>>]

\* The instructions named n of loop l, in the order of their phis.
Row(shape, n, l) == [k \in 1..shape.phis |-> InstId(n, l, k, 0)]

\* The values a loop carries are defined in the block before it.
Defs(shape, l) ==
    IF l <= shape.loops /\ ~shape.imm THEN Row(shape, "x", l) ELSE <<>>

ShapeBlock(shape, b) ==
    IF b = 0 THEN <<Cond>> \o Defs(shape, 1)
    ELSE LET l == (b + 2) \div 3
             j == b - 3 * (l - 1)
         IN CASE j = 1 -> Row(shape, "p", l)
              [] j = 2 -> Row(shape, "y", l)
              [] j = 3 -> (IF shape.post THEN Row(shape, "z", l) ELSE <<>>)
                          \o Defs(shape, l + 1)

Node(type, block, cond) == [type |-> type, block |-> block, cond |-> cond]

\* The immediates of type U1.
ImmU1(val) == [imm |-> TRUE, type |-> "U1", val |-> val]

\* The nodes of structured control flow: an If or a Repeat reads a
\* condition value, a Break an immediate or a condition value.
ControlNodes ==
    {Node("If", 0, InstValue(Cond)), Node("EndIf", 0, Imm1),
     Node("Loop", 0, Imm1), Node("Repeat", 0, InstValue(Cond)),
     Node("Break", 0, ImmU1(1)), Node("Break", 0, ImmU1(0)),
     Node("Break", 0, InstValue(Cond)),
     Node("Return", 0, Imm1), Node("Unreachable", 0, Imm1)}

\* If/EndIf and Loop/Repeat are properly nested in nodes, open holding the
\* constructs open in front of it; a Break is inside a loop.
RECURSIVE Nested(_, _)
Nested(nodes, open) ==
    IF nodes = <<>> THEN open = <<>>
    ELSE LET type == Head(nodes).type
         IN CASE type \in {"If", "Loop"} ->
                   Nested(Tail(nodes), <<type>> \o open)
              [] type = "EndIf" ->
                   /\ open # <<>> /\ Head(open) = "If"
                   /\ Nested(Tail(nodes), Tail(open))
              [] type = "Repeat" ->
                   /\ open # <<>> /\ Head(open) = "Loop"
                   /\ Nested(Tail(nodes), Tail(open))
              [] type = "Break" ->
                   /\ \E o \in DOMAIN open : open[o] = "Loop"
                   /\ Nested(Tail(nodes), open)
              [] OTHER -> Nested(Tail(nodes), open)

\* Programs of one loop followed by properly nested control flow.
NestShapes ==
    [phis : {1}, loops : {1}, imm : {TRUE}, post : {FALSE},
     nodes : {nodes \in UNION {[1..n -> ControlNodes] : n \in 0..MaxNodes} :
                  Nested(nodes, <<>>)}]

\* The abstract syntax list: the entry block, then "Loop, head, body,
\* Repeat, block after" for every loop, then the shape's further nodes,
\* then Return.
ShapeSyntaxList(shape) ==
    [j \in 1..(5 * shape.loops + 2 + Len(shape.nodes)) |->
        IF j = 1 THEN Node("Block", 0, Imm1)
        ELSE IF j = 5 * shape.loops + 2 + Len(shape.nodes)
        THEN Node("Return", 0, Imm1)
        ELSE IF j > 5 * shape.loops + 1
        THEN shape.nodes[j - (5 * shape.loops + 1)]
        ELSE LET l == (j - 2) \div 5 + 1
                 r == (j - 2) % 5
             IN CASE r = 0 -> Node("Loop", 0, Imm1)
                  [] r = 1 -> Node("Block", BlockOf(l, 1), Imm1)
                  [] r = 2 -> Node("Block", BlockOf(l, 2), Imm1)
                  [] r = 3 -> Node("Repeat", 0, InstValue(Cond))
                  [] r = 4 -> Node("Block", BlockOf(l, 3), Imm1)]

\* The IR::Program the frontend hands to EmitMSL.
Program(shape, info) ==
    [shape |-> shape,
     info |-> info,
     insts |-> [id \in ShapeInsts(shape) |-> ShapeInst(shape, id)],
     blocks |-> [b \in 0..(3 * shape.loops) |-> ShapeBlock(shape, b)],
     syntax_list |-> ShapeSyntaxList(shape)]

\* IR::Inst::use_count as the frontend leaves it: one per argument that
\* names the instruction and one per syntax node whose condition does.
UseCount(pr, id) ==
    Cardinality({<<i, a>> \in (DOMAIN pr.insts) \X (1..3) :
                    /\ a \in DOMAIN pr.insts[i].args
                    /\ pr.insts[i].args[a] = InstValue(id)})
    + Cardinality({j \in DOMAIN pr.syntax_list :
                      /\ pr.syntax_list[j].type \in {"If", "Break", "Repeat"}
                      /\ pr.syntax_list[j].cond = InstValue(id)})

\* fmt::format: every "{}" of the format string is replaced by the next
\* argument, "{{" and "}}" stand for one brace.
RECURSIVE Format(_, _)
Format(format_str, args) ==
    IF Len(format_str) = 0 THEN ""
    ELSE IF Len(format_str) >= 2 /\ SubSeq(format_str, 1, 2) = "{}"
    THEN Head(args) \o Format(SubSeq(format_str, 3, Len(format_str)), Tail(args))
    ELSE IF Len(format_str) >= 2 /\ SubSeq(format_str, 1, 2) \in {"{{", "}}"}
    THEN SubSeq(format_str, 1, 1)
         \o Format(SubSeq(format_str, 3, Len(format_str)), args)
    ELSE SubSeq(format_str, 1, 1)
         \o Format(SubSeq(format_str, 2, Len(format_str)), args)


\* ---------------------------------------------------------------- Precolor
IsReference(pr, id) == pr.insts[id].op = "Reference"

InsertionPointAtEnd(pr, b) == Len(pr.blocks[b])

\* "std::find_if_not(phi_block.rbegin(), phi_block.rend(), IsReference)
\* .base()": the number of instructions in front of the insertion point,
\* which is right behind the last instruction that is not a Reference.
InsertionPoint(pr, b) ==
    LET block == pr.blocks[b]
        others == {n \in 1..Len(block) : ~IsReference(pr, block[n])}
    IN IF others = {} THEN 0
       ELSE CHOOSE n \in others : \A m \in others : m <= n

InsertAt(block, point, e) ==
    SubSeq(block, 1, point) \o <<e>> \o SubSeq(block, point + 1, Len(block))

\* IR::IREmitter creating an instruction at a point of a block: the new
\* instruction counts as one use of every instruction among its arguments.
RECURSIVE AddUses(_, _)
AddUses(counts, args) ==
    IF args = <<>> THEN counts
    ELSE IF Head(args).imm THEN AddUses(counts, Tail(args))
    ELSE AddUses([counts EXCEPT ![Head(args).inst] = @ + 1], Tail(args))

Emitter(st, b, point, id, op, args) ==
    [program |->
         [st.program EXCEPT
              !.insts = (id :> [op |-> op, args |-> args, phi_blocks |-> <<>>])
                        @@ @,
              !.blocks[b] = InsertAt(@, point, id)],
     use_count |-> AddUses((id :> 0) @@ st.use_count, args),
     inserted |-> Append(st.inserted,
                         [id |-> id, op |-> op, args |-> args, block |-> b,
                          point |-> point,
                          before |-> st.program.blocks[b]])]

\* The first loop of PrecolorInst, from argument i on.
RECURSIVE PhiMoves(_, _, _)
PhiMoves(st, phi, i) ==
    IF i > Len(st.program.insts[phi].args) THEN st
    ELSE LET phi_block == st.program.insts[phi].phi_blocks[i]
             it == InsertionPoint(st.program, phi_block)
             arg == st.program.insts[phi].args[i]
         IN PhiMoves(Emitter(st, phi_block, it,
                             InstId("PhiMove", phi.l, phi.k, i), "PhiMove",
                             <<InstValue(phi), arg>>),
                     phi, i + 1)

\* The second loop of PrecolorInst, from argument i on.
RECURSIVE References(_, _, _)
References(st, phi, i) ==
    IF i > Len(st.program.insts[phi].args) THEN st
    ELSE LET phi_block == st.program.insts[phi].phi_blocks[i]
         IN References(Emitter(st, phi_block,
                               Len(st.program.blocks[phi_block]),
                               InstId("Reference", phi.l, phi.k, i),
                               "Reference", <<InstValue(phi)>>),
                       phi, i + 1)

PrecolorInstReferencesFirst(st, phi) ==
    PhiMoves(References(st, phi, 1), phi, 1)

\* void PrecolorInst(IR::Inst& phi)
PrecolorInst(st, phi) == References(PhiMoves(st, phi, 1), phi, 1)

\* The instructions Precolor's loops visit: of every block in order, the
\* phis at its head.
RECURSIVE LeadingPhis(_, _)
LeadingPhis(pr, block) ==
    IF block = <<>> \/ pr.insts[Head(block)].op # "Phi" THEN <<>>
    ELSE <<Head(block)>> \o LeadingPhis(pr, Tail(block))

RECURSIVE PhisFrom(_, _)
PhisFrom(pr, b) ==
    IF b \notin DOMAIN pr.blocks THEN <<>>
    ELSE LeadingPhis(pr, pr.blocks[b]) \o PhisFrom(pr, b + 1)

\* ----------------------------------------------------------------- EmitMSL
restVars == <<cacheVars, drawVars, keyVars, infoVars>>

\* The MslVarType values the emitted programs use.
EmitTypes == {"U1", "U32"}

GetMslType(type) ==
    CASE type = "U1" -> "bool"
      [] type = "U32" -> "uint"
      [] type = "F32" -> "float"

\* The descriptors of the emitted stage's Info.
EmitInfos == {info \in Infos : \A d \in DOMAIN info : info[d].count = 1 /\ d = 1}

NoBindings == [class \in {Classes[r] : r \in DOMAIN Classes} |-> 0]

CodeStart == [phase |-> "code", node |-> 1, inst |-> 1]

StartEmitOnEmittedProgram ==
    /\ pos.phase = "start"
    /\ LET ctx == EmitContextDefineInputs(program.info, NoBindings, 1)
           inputs == DefineInputs(program.info, ctx.bindings, 1)
       IN /\ bindings' = inputs.bindings
          /\ layout' = ctx.assigned \o inputs.assigned
          /\ pos' = IF PhisFrom(program, 0) = <<>>
                    THEN CodeStart
                    ELSE [phase |-> "precolor", node |-> 0, inst |-> 0]
    /\ emitted' = {}
    /\ tracker' = [t \in EmitTypes |-> NewTracker]
    /\ call' = [op |-> "none", inst |-> 0, type |-> "U1"]
    /\ ret' = ""
    /\ fault' = "none"
    /\ operands' = <<>>
    /\ code' = <<>>
    /\ header' = <<>>
    /\ num_safety_loop_vars' = 0
    /\ owner' = <<>>
    /\ inserted' = <<>>
    /\ UNCHANGED <<program, use_count, definition>>
    /\ UNCHANGED <<settings, outputs, stages, restVars>>

\* "EmitContext ctx{program, bindings, profile, runtime_info};
\*  DefineInputs(ctx, inputs, bindings);" on a program fresh from the
\* frontend and the bindings of the overload without a Bindings argument.
StartEmit ==
    /\ pos.phase = "start"
    /\ LET pr == Program(program.shape, program.info)
           ctx == EmitContextDefineInputs(pr.info, NoBindings, 1)
           inputs == DefineInputs(pr.info, ctx.bindings, 1)
       IN /\ program' = pr
          /\ use_count' = [id \in DOMAIN pr.insts |-> UseCount(pr, id)]
          /\ definition' = [id \in DOMAIN pr.insts |-> NullId]
          /\ bindings' = inputs.bindings
          /\ layout' = ctx.assigned \o inputs.assigned
          /\ pos' = IF PhisFrom(pr, 0) = <<>>
                    THEN CodeStart
                    ELSE [phase |-> "precolor", node |-> 0, inst |-> 0]
    /\ emitted' = {}
    /\ tracker' = [t \in EmitTypes |-> NewTracker]
    /\ call' = [op |-> "none", inst |-> 0, type |-> "U1"]
    /\ ret' = ""
    /\ fault' = "none"
    /\ operands' = <<>>
    /\ code' = <<>>
    /\ header' = <<>>
    /\ num_safety_loop_vars' = 0
    /\ owner' = <<>>
    /\ inserted' = <<>>
    /\ UNCHANGED <<settings, outputs, stages, restVars>>

\* void Precolor(const IR::Program& program), one phi at a step.
Precolor ==
    /\ pos.phase = "precolor"
    /\ LET phis == PhisFrom(program, 0)
           st == PrecolorInst([program |-> program, use_count |-> use_count,
                               inserted |-> inserted], phis[pos.inst + 1])
       IN /\ program' = st.program
          /\ use_count' = st.use_count
          /\ inserted' = st.inserted
          /\ definition' = [id \in DOMAIN st.program.insts |->
                               IF id \in DOMAIN definition
                               THEN definition[id]
                               ELSE NullId]
          /\ pos' = IF pos.inst + 1 < Len(PhisFrom(st.program, 0))
                    THEN [pos EXCEPT !.inst = @ + 1]
                    ELSE CodeStart
    /\ UNCHANGED <<emitted, tracker, call, ret, fault>>
    /\ UNCHANGED <<settings, operands, code, header, num_safety_loop_vars,
                   owner, outputs, bindVars, restVars>>

CurNode == program.syntax_list[pos.node]

CurBlock == program.blocks[CurNode.block]

CurInst == CurBlock[pos.inst]

\* EmitCode is at an instruction of a block.
AtInst ==
    /\ pos.phase = "code"
    /\ fault = "none"
    /\ CurNode.type = "Block"
    /\ pos.inst <= Len(CurBlock)

\* The loops of EmitCode: the next instruction of the block, else the
\* next node of the syntax list, else the end of EmitCode.
NextPos ==
    IF CurNode.type = "Block" /\ pos.inst < Len(CurBlock)
    THEN [pos EXCEPT !.inst = @ + 1]
    ELSE IF pos.node < Len(program.syntax_list)
    THEN [pos EXCEPT !.node = @ + 1, !.inst = 1]
    ELSE [phase |-> "variables", node |-> 0, inst |-> 0]

\* The arguments of an instruction that its rule consumes.
Pending ==
    IF program.insts[CurInst].op \in {"SelectU32", "Phi", "PhiMove", "Reference"}
    THEN DOMAIN program.insts[CurInst].args \ DOMAIN operands
    ELSE {}

\* Invoke evaluates the Arg calls of a rule in an order the compiler
\* chooses; EmitPhi, EmitPhiMove and EmitReference consume in statement
\* order.
NextOperands ==
    IF program.insts[CurInst].op = "SelectU32"
    THEN Pending
    ELSE {a \in Pending : \A b \in Pending : a <= b}

\* EmitPhiMove finds its phi without a variable.
NeedsForwardDefine ==
    /\ program.insts[CurInst].op = "PhiMove"
    /\ DOMAIN operands = {}
    /\ definition[program.insts[CurInst].args[1].inst].is_valid = 0

Owned(id) ==
    IF definition'[id] # definition[id] /\ definition'[id].is_valid = 1
    THEN (RepresentationId(definition'[id]) :> id) @@ owner
    ELSE owner

\* EmitPhiMove: "The phi node wasn't forward defined".
EmitForwardDefine ==
    /\ AtInst
    /\ NeedsForwardDefine
    /\ LET phi == program.insts[CurInst].args[1].inst
       IN /\ PhiDefine(phi, "U32")
          /\ code' = Append(code, Format("{};", <<ret'>>))
          /\ owner' = Owned(phi)
    /\ UNCHANGED <<program, settings, pos, operands, header,
                   num_safety_loop_vars, inserted, outputs, bindVars, restVars>>

\* One Arg call of Invoke, or one Consume of EmitPhi, EmitPhiMove or
\* EmitReference.
EmitOperand ==
    /\ AtInst
    /\ ~NeedsForwardDefine
    /\ \E a \in NextOperands :
           /\ Consume(program.insts[CurInst].args[a])
           /\ operands' = (a :> ret') @@ operands
    /\ UNCHANGED <<program, settings, pos, code, header,
                   num_safety_loop_vars, owner, inserted, outputs, bindVars,
                   restVars>>

AddKeepsTarget(format_str, inst, type, args) ==
    /\ AddDefine(inst, type)
    /\ code' = Append(code, Format(format_str, <<ret'>> \o args))

\* template <MslVarType type, typename... Args>
\* void EmitContext::Add(const char* format_str, IR::Inst& inst, Args&&...)
Add(format_str, inst, type, args) ==
    /\ AddDefine(inst, type)
    /\ code' = Append(code,
                      IF ret' = ""
                      THEN Format(SubSeq(format_str, 4, Len(format_str)), args)
                      ELSE Format(format_str, <<ret'>> \o args))

\* The format string and the type of the rules EmitUndefU1, EmitUndefU32
\* and EmitSelectU32.
InstFormat(op) ==
    CASE op = "UndefU1" -> "{}=false;"
      [] op = "UndefU32" -> "{}=0u;"
      [] op = "SelectU32" -> "{}={}?{}:{};"

InstType(op) == IF op = "UndefU1" THEN "U1" ELSE "U32"

\* The rule of the instruction's opcode, its operands consumed.
EmitResult ==
    /\ AtInst
    /\ ~NeedsForwardDefine
    /\ Pending = {}
    /\ LET id == CurInst
           inst == program.insts[id]
           args == [a \in 1..Len(inst.args) |-> operands[a]]
       IN /\ IF inst.op \in {"UndefU1", "UndefU32", "SelectU32"}
             THEN Add(InstFormat(inst.op), id, InstType(inst.op),
                      IF inst.op = "SelectU32" THEN args ELSE <<>>)
             ELSE IF inst.op = "Phi"
             THEN /\ IF definition[id].is_valid = 0
                     THEN PhiDefine(id, "U32")
                     ELSE UNCHANGED allocVars
                  /\ code' = code
             ELSE IF inst.op = "PhiMove"
             THEN /\ code' = IF operands[1] = operands[2]
                             THEN code
                             ELSE Append(code, Format("{}={}{};",
                                                      <<operands[1],
                                                        operands[2], "">>))
                  /\ UNCHANGED allocVars
             ELSE UNCHANGED <<allocVars, code>>
          /\ owner' = Owned(id)
    /\ pos' = NextPos
    /\ operands' = <<>>
    /\ UNCHANGED <<program, settings, header, num_safety_loop_vars, inserted,
                   outputs, bindVars, restVars>>

\* The statement EmitCode adds for a node that is not a block of
\* instructions, cond being the consumed condition and loop_var the number
\* of guard counters handed out.
NodeStatementRepeatLeavesLoopOpen(node, disable, loop_var, cond) ==
    CASE node.type = "Block" -> <<>>
      [] node.type = "If" -> <<Format("if({}){{", <<cond>>)>>
      [] node.type = "EndIf" -> <<Format("}}", <<>>)>>
      [] node.type = "Break" ->
           IF node.cond.imm
           THEN (IF node.cond.val = 1 THEN <<Format("break;", <<>>)>> ELSE <<>>)
           ELSE <<Format("if({}){{break;}}", <<cond>>)>>
      [] node.type \in {"Return", "Unreachable"} -> <<Format("return;", <<>>)>>
      [] node.type = "Loop" -> <<Format("for(;;){{", <<>>)>>
      [] node.type = "Repeat" ->
           IF disable
           THEN <<Format("if(!{}){{break;}}", <<cond>>)>>
           ELSE <<Format("if(--loop{}<0 || !{}){{break;}}",
                         <<ToString(loop_var), cond>>)>>

NodeStatement(node, disable, loop_var, cond) ==
    CASE node.type = "Block" -> <<>>
      [] node.type = "If" -> <<Format("if({}){{", <<cond>>)>>
      [] node.type = "EndIf" -> <<Format("}}", <<>>)>>
      [] node.type = "Break" ->
           IF node.cond.imm
           THEN (IF node.cond.val = 1 THEN <<Format("break;", <<>>)>> ELSE <<>>)
           ELSE <<Format("if({}){{break;}}", <<cond>>)>>
      [] node.type \in {"Return", "Unreachable"} -> <<Format("return;", <<>>)>>
      [] node.type = "Loop" -> <<Format("for(;;){{", <<>>)>>
      [] node.type = "Repeat" ->
           IF disable
           THEN <<Format("if(!{}){{break;}}}}", <<cond>>)>>
           ELSE <<Format("if(--loop{}<0 || !{}){{break;}}}}",
                         <<ToString(loop_var), cond>>)>>

\* A node of the syntax list that is not a block of instructions.
EmitNode ==
    /\ pos.phase = "code"
    /\ fault = "none"
    /\ CurNode.type = "Block" => Len(CurBlock) = 0
    /\ LET node == CurNode
       IN /\ IF node.type \in {"If", "Repeat"}
                \/ (node.type = "Break" /\ ~node.cond.imm)
             THEN Consume(node.cond)
             ELSE UNCHANGED allocVars
          /\ code' = code \o NodeStatement(node,
                                 settings.disable_shader_loop_safety_checks,
                                 num_safety_loop_vars, ret')
          /\ num_safety_loop_vars' =
                 IF node.type = "Repeat"
                    /\ ~settings.disable_shader_loop_safety_checks
                 THEN num_safety_loop_vars + 1
                 ELSE num_safety_loop_vars
    /\ pos' = NextPos
    /\ UNCHANGED <<program, settings, operands, header, owner, inserted,
                   outputs, bindVars, restVars>>

\* The declarations of one type's variables.
TypeVariablesWithoutTemp(trs, type) ==
    [index \in 1..trs[type].num_used |->
        Format("{}{} {}={}(0);",
               <<"", GetMslType(type), Representation(index - 1, type),
                 GetMslType(type)>>)]

TypeVariables(trs, type) ==
    (IF trs[type].uses_temp
     THEN <<Format("{}{} t{}={}(0);",
                   <<"", GetMslType(type), Representation(0, type),
                     GetMslType(type)>>)>>
     ELSE <<>>)
    \o [index \in 1..trs[type].num_used |->
           Format("{}{} {}={}(0);",
                  <<"", GetMslType(type), Representation(index - 1, type),
                    GetMslType(type)>>)]

RECURSIVE VariablesOf(_, _)
VariablesOf(trs, types) ==
    IF types = <<>> THEN <<>>
    ELSE (IF Head(types) \in DOMAIN trs
          THEN TypeVariables(trs, Head(types))
          ELSE <<>>)
         \o VariablesOf(trs, Tail(types))

DefineVariablesOneLoopVarShort(trs, loop_vars) ==
    VariablesOf(trs, <<"U1", "U32", "F32">>)
    \o [i \in 1..(loop_vars - 1) |->
           Format("int loop{}=0x2000;", <<ToString(i - 1)>>)]

\* void DefineVariables(const EmitContext& ctx, std::string& header)
DefineVariables(trs, loop_vars) ==
    VariablesOf(trs, <<"U1", "U32", "F32">>)
    \o [i \in 1..loop_vars |-> Format("int loop{}=0x2000;", <<ToString(i - 1)>>)]

\* The end of EmitMSL: the variables are declared and the text returned.
\* The build's next emission of the program starts from "start".
FinishEmit ==
    /\ pos.phase = "variables"
    /\ fault = "none"
    /\ header' = DefineVariables(tracker, num_safety_loop_vars)
    /\ outputs' = Append(outputs,
                         [code |-> header' \o code \o <<"}">>,
                          inputs |-> layout,
                          bindings |-> bindings])
    /\ pos' = [phase |-> IF Len(outputs) = 0 THEN "start" ELSE "done",
               node |-> 0, inst |-> 0]
    /\ UNCHANGED <<allocVars, program, settings, operands, code,
                   num_safety_loop_vars, owner, inserted, bindVars, restVars>>

\* No program is being emitted.
IdleEmit ==
    /\ program = [shape |-> <<>>, info |-> <<>>, insts |-> <<>>,
                  blocks |-> <<>>, syntax_list |-> <<>>]
    /\ settings = [disable_shader_loop_safety_checks |-> FALSE]
    /\ pos = [phase |-> "idle", node |-> 0, inst |-> 0]
    /\ operands = <<>>
    /\ code = <<>>
    /\ header = <<>>
    /\ num_safety_loop_vars = 0
    /\ owner = <<>>
    /\ inserted = <<>>
    /\ outputs = <<>>

\* A program from the frontend, about to be emitted.
InitEmitOf(shapes, infos) ==
    /\ \E shape \in shapes, info \in infos :
           /\ program = Program(shape, info)
           /\ use_count = [id \in DOMAIN program.insts |-> UseCount(program, id)]
           /\ definition = [id \in DOMAIN program.insts |-> NullId]
    /\ settings \in [disable_shader_loop_safety_checks : BOOLEAN]
    /\ pos = [phase |-> "start", node |-> 0, inst |-> 0]
    /\ emitted = {}
    /\ tracker = [t \in EmitTypes |-> NewTracker]
    /\ call = [op |-> "none", inst |-> 0, type |-> "U1"]
    /\ ret = ""
    /\ fault = "none"
    /\ operands = <<>>
    /\ code = <<>>
    /\ header = <<>>
    /\ num_safety_loop_vars = 0
    /\ owner = <<>>
    /\ inserted = <<>>
    /\ outputs = <<>>

InitEmit == InitEmitOf(ProgramShapes, EmitInfos)

\* A program with control flow behind its loop and no resources.
InitNest == InitEmitOf(NestShapes, {<<>>})

\* No pipeline build is walking the program slots.
IdleBuild == pipeline_build = [phase |-> "idle"]

\* MakeDrawParams has not been called.
IdleParams == draw_params = [phase |-> "idle"]

IdleInfo == helpers = [phase |-> "idle"] /\ IdleBuild /\ IdleParams

\* ------------------------------------------------- EmitContext's preamble
\* Common::DivCeil
DivCeil(number, divisor) == (number + divisor - 1) \div divisor

\* The stages' Info and Profile as far as the constant buffer
\* declarations and the global memory helpers read them: two constant
\* buffers, up to MaxBuffers storage buffers.
StageInfos ==
    [constant_buffer_descriptors : {<<[index |-> 0, count |-> 1],
                                      [index |-> 1, count |-> 1]>>},
     constant_buffer_used_sizes : [0..1 -> 0..MaxUsedSize],
     uses_global_memory : BOOLEAN,
     nvn_buffer_used : UNION {[1..n -> BOOLEAN] : n \in 0..MaxBuffers},
     support_int64 : BOOLEAN]

CbufBindingSizeInBytes(info, desc) ==
    IF info.uses_global_memory
    THEN 4096
    ELSE info.constant_buffer_used_sizes[desc.index]

\* "cbuf_used_size{Common::DivCeil(used_sizes[desc.index], 16U)};
\*  cbuf_binding_size{info.uses_global_memory ? 0x1000U : cbuf_used_size}"
CbufBindingSize(info, desc) ==
    IF info.uses_global_memory
    THEN 4096
    ELSE DivCeil(info.constant_buffer_used_sizes[desc.index], 16)

\* The loop over the constant buffer descriptors of either DefineInputs:
\* name is "{stage_name}_cbuf" or "cbuf".
RECURSIVE ConstantBuffers(_, _, _, _)
ConstantBuffers(info, descs, name, uniform_buffer) ==
    IF descs = <<>> THEN <<>>
    ELSE LET desc == Head(descs)
         IN <<[index |-> desc.index,
               size |-> CbufBindingSize(info, desc),
               text |-> Format("constant float4& {}{}[{}] [[buffer({})]]",
                               <<name, ToString(desc.index),
                                 ToString(CbufBindingSize(info, desc)),
                                 ToString(uniform_buffer)>>)]>>
            \o ConstantBuffers(info, Tail(descs), name,
                               uniform_buffer + desc.count)

\* The six helpers DefineGlobalMemoryFunctions writes and what each does
\* when no guard matches.
GlobalMemoryFunctions ==
    <<[name |-> "WriteGlobal32", otherwise |-> ""],
      [name |-> "WriteGlobal64", otherwise |-> ""],
      [name |-> "WriteGlobal128", otherwise |-> ""],
      [name |-> "LoadGlobal32", otherwise |-> "return 0u;"],
      [name |-> "LoadGlobal64", otherwise |-> "return uint2(0);"],
      [name |-> "LoadGlobal128", otherwise |-> "return uint4(0);"]>>

\* define_body for the buffers from index on: an address-range guard
\* "if((addr>=ssbo_addrN)&&(addr<(ssbo_addrN+size))){...return...;}" for
\* every buffer whose nvn_buffer_used flag is set. (The source counts the
\* buffers from 0.)
RECURSIVE GuardsOfAllBuffers(_, _)
GuardsOfAllBuffers(info, index) ==
    IF index > Len(info.nvn_buffer_used) THEN <<>>
    ELSE <<[ssbo |-> index - 1,
            base |-> "ssbo_addr" \o ToString(index - 1)]>>
         \o GuardsOfAllBuffers(info, index + 1)

RECURSIVE Guards(_, _)
Guards(info, index) ==
    IF index > Len(info.nvn_buffer_used) THEN <<>>
    ELSE (IF info.nvn_buffer_used[index]
          THEN <<[ssbo |-> index - 1,
                  base |-> "ssbo_addr" \o ToString(index - 1)]>>
          ELSE <<>>)
         \o Guards(info, index + 1)

\* std::string EmitContext::DefineGlobalMemoryFunctions()
DefineGlobalMemoryFunctions(info) ==
    [f \in DOMAIN GlobalMemoryFunctions |->
        [name |-> GlobalMemoryFunctions[f].name,
         guards |-> Guards(info, 1),
         otherwise |-> GlobalMemoryFunctions[f].otherwise]]

\* What a call of a generated helper does at run time: the guards are
\* tried in the order of the text and the first whose range holds addr
\* performs the access relative to its buffer; behind the last guard the
\* function's closing statement runs. ranges gives every buffer's
\* [base, base + size).
RECURSIVE Call(_, _, _, _)
Call(guards, otherwise, addr, ranges) ==
    IF guards = <<>>
    THEN [ssbo |-> -1, offset |-> 0, statement |-> otherwise]
    ELSE LET r == ranges[Head(guards).ssbo]
         IN IF addr >= r.base /\ addr < r.base + r.size
            THEN [ssbo |-> Head(guards).ssbo, offset |-> addr - r.base,
                  statement |-> "access"]
            ELSE Call(Tail(guards), otherwise, addr, ranges)

\* The constructor of EmitContext: its DefineInputs declares the constant
\* buffers, DefineHelperFunctions writes the global memory helpers.
ConstructContext ==
    /\ helpers.phase = "info"
    /\ helpers' =
           [helpers EXCEPT
                !.phase = "constructed",
                !.input_str = ConstantBuffers(helpers.info,
                                  helpers.info.constant_buffer_descriptors,
                                  "vertex_cbuf", 0),
                !.functions = IF helpers.info.uses_global_memory
                                 /\ helpers.info.support_int64
                              THEN DefineGlobalMemoryFunctions(helpers.info)
                              ELSE <<>>]
    /\ UNCHANGED <<allocVars, cacheVars, drawVars, keyVars, bindVars, emitVars, pipeline_build, draw_params>>

\* DefineInputs of emit_msl.cpp on the constructed context, with the
\* bindings as the constructor left them.
DeclareInputs ==
    /\ helpers.phase = "constructed"
    /\ helpers' =
           [helpers EXCEPT
                !.phase = "declared",
                !.inputs = ConstantBuffers(helpers.info,
                               helpers.info.constant_buffer_descriptors,
                               "cbuf",
                               Len(helpers.info.constant_buffer_descriptors))]
    /\ UNCHANGED <<allocVars, cacheVars, drawVars, keyVars, bindVars, emitVars, pipeline_build, draw_params>>

InitInfo ==
    /\ \E info \in StageInfos :
           helpers = [phase |-> "info", info |-> info, input_str |-> <<>>,
                      inputs |-> <<>>, functions |-> <<>>]
    /\ IdleBuild
    /\ IdleParams

\* ------------------------------------------------------- the emitter's use
InitAlloc ==
    /\ use_count \in [Insts -> 0..MaxUses]
    /\ definition = [i \in Insts |-> NullId]
    /\ emitted = {}
    /\ tracker = [t \in VarTypes |-> NewTracker]
    /\ call = [op |-> "none", inst |-> 0, type |-> "U1"]
    /\ ret = ""
    /\ fault = "none"

\* The allocator of a build that has not started.
IdleAlloc ==
    /\ use_count = [i \in Insts |-> 0]
    /\ definition = [i \in Insts |-> NullId]
    /\ emitted = {}
    /\ tracker = [t \in VarTypes |-> NewTracker]
    /\ call = [op |-> "none", inst |-> 0, type |-> "U1"]
    /\ ret = ""
    /\ fault = "none"

\* EmitCode: the instructions are emitted once each, in program order; the
\* rule of an instruction's opcode defines its result.
NextInst == {i \in Insts : i \notin emitted /\ \A j \in 1..(i - 1) : j \in emitted}

EmitDefine ==
    \E i \in NextInst, t \in VarTypes : Define(i, t) /\ UNCHANGED <<cacheVars, drawVars, keyVars, bindVars, emitVars, infoVars>>

EmitAddDefine ==
    \E i \in NextInst, t \in VarTypes : AddDefine(i, t) /\ UNCHANGED <<cacheVars, drawVars, keyVars, bindVars, emitVars, infoVars>>

EmitPhiDefine ==
    \E i \in NextInst, t \in IRTypes : PhiDefine(i, t) /\ UNCHANGED <<cacheVars, drawVars, keyVars, bindVars, emitVars, infoVars>>

\* An operand is consumed after its definition, once per counted use.
EmitConsume ==
    \E v \in ImmValues \cup {w \in InstValues :
                                /\ w.inst \in emitted
                                /\ HasUses(use_count[w.inst])} :
        Consume(v) /\ UNCHANGED <<cacheVars, drawVars, keyVars, bindVars, emitVars, infoVars>>

Init == InitAlloc /\ InitCache /\ InitDraw /\ IdleKey /\ InitBind /\ IdleEmit /\ IdleInfo

Next == EmitDefine \/ EmitAddDefine \/ EmitPhiDefine \/ EmitConsume

vars == <<allocVars, cacheVars, drawVars, keyVars, bindVars, emitVars, infoVars>>

Spec == Init /\ [][Next]_vars

\* Calls made outside the IR contract: an operand of any emitted or
\* unemitted instruction, whatever its remaining use count.
ApiConsume ==
    \E v \in ImmValues \cup {w \in InstValues : use_count[w.inst] > -MaxOver} :
        Consume(v) /\ UNCHANGED <<cacheVars, drawVars, keyVars, bindVars, emitVars, infoVars>>

NextApi == EmitDefine \/ EmitAddDefine \/ EmitPhiDefine \/ ApiConsume

SpecApi == Init /\ [][NextApi]_vars

\* The pipeline cache under draws, dispatches and guest state changes; the
\* caller serialises the requests. The render targets are as the guest
\* left them before the first request.
InitCacheSpec ==
    /\ IdleAlloc
    /\ InitCache
    /\ framebuffer \in BOOLEAN
    /\ recorder = NewRecorder
    /\ draw = "none"
    /\ escaped = FALSE
    /\ IdleKey
    /\ InitBind
    /\ IdleEmit
    /\ IdleInfo

NextCache == Draw \/ Dispatch \/ GuestShaders \/ GuestDrawState \/ GuestLaunch

SpecCache == InitCacheSpec /\ [][NextCache]_vars

\* The rasterizer's draws over frames, the guest changing its shaders,
\* draw state and render targets in between.
InitDrawSpec == IdleAlloc /\ InitCache /\ InitDraw /\ IdleKey /\ InitBind /\ IdleEmit /\ IdleInfo

NextDraw ==
    \/ Draw \/ Submit
    \/ GuestShaders \/ GuestPadding \/ GuestDrawState \/ GuestFramebuffer

SpecDraw == InitDrawSpec /\ [][NextDraw]_vars

\* Hash and operator== of the cache keys, over pairs of keys.
InitKeySpec == IdleAlloc /\ InitCache /\ InitDraw /\ InitKey /\ InitBind /\ IdleEmit /\ IdleInfo

NextKey == CompareGraphicsKeys \/ CompareComputeKeys

SpecKey == InitKeySpec /\ [][NextKey]_vars

\* The binding layout of the stages of one pipeline build.
InitBindSpec == IdleAlloc /\ InitCache /\ InitDraw /\ IdleKey /\ InitBind /\ IdleEmit /\ IdleInfo

NextBind == EmitMSL

SpecBind == InitBindSpec /\ [][NextBind]_vars

\* The emitter: one IR program emitted twice, each time from the program
\* as the frontend produced it.
InitEmitSpec == InitEmit /\ InitCache /\ InitDraw /\ IdleKey /\ InitBind /\ IdleInfo

NextEmit ==
    \/ StartEmit \/ Precolor
    \/ EmitForwardDefine \/ EmitOperand \/ EmitResult \/ EmitNode
    \/ FinishEmit

SpecEmit == InitEmitSpec /\ [][NextEmit]_vars

\* EmitMSL on programs with nested conditionals, loops and breaks.
InitNestSpec == InitNest /\ InitCache /\ InitDraw /\ IdleKey /\ InitBind /\ IdleInfo

SpecNest == InitNestSpec /\ [][NextEmit]_vars

\* The preamble of one stage: the context is constructed, then EmitMSL
\* declares the inputs.
InitInfoSpec == IdleAlloc /\ InitCache /\ InitDraw /\ IdleKey /\ InitBind /\ IdleEmit /\ InitInfo

NextInfo == ConstructContext \/ DeclareInputs

SpecInfo == InitInfoSpec /\ [][NextInfo]_vars

\* ------------------------------- CreateGraphicsPipeline's per-stage arrays
\* VideoCommon::NUM_STAGES and Maxwell::MaxShaderStage, the sizes of the
\* functions and infos arrays.
NUM_STAGES == 5

\* const size_t stage_index{index - 1}: size_t is unsigned and the
\* subtraction wraps.  size_t is 64 bits wide; the model keeps the low 30
\* bits, which tells every index of the arrays from a wrapped one.
StageIndex(index) == (index - 1) % (2^30)

\* The second loop of CreateGraphicsPipeline, one program slot per step: a
\* slot without a hash is skipped, any other writes infos[stage_index] and
\* functions[stage_index].  A write outside the arrays is undefined: the
\* build goes on or the process stops.
BuildStage ==
    /\ pipeline_build.phase = "stages"
    /\ pipeline_build.index \in ProgramIndices
    /\ IF pipeline_build.unique_hashes[pipeline_build.index] = 0
       THEN pipeline_build' = [pipeline_build EXCEPT !.index = @ + 1]
       ELSE LET stage_index == StageIndex(pipeline_build.index) IN
            \E outcome \in IF stage_index \in 0..(NUM_STAGES - 1)
                           THEN {"stages"}
                           ELSE {"stages", "crashed"} :
                pipeline_build' = [pipeline_build EXCEPT
                             !.phase = outcome,
                             !.index = @ + 1,
                             !.infos = @ \cup {stage_index},
                             !.functions = @ \cup {stage_index}]
    /\ UNCHANGED <<allocVars, cacheVars, drawVars, keyVars, bindVars, emitVars,
                   helpers, draw_params>>

\* return std::make_unique<GraphicsPipeline>(..., functions, infos)
BuildPipeline ==
    /\ pipeline_build.phase = "stages"
    /\ pipeline_build.index \notin ProgramIndices
    /\ pipeline_build' = [pipeline_build EXCEPT !.phase = "built"]
    /\ UNCHANGED <<allocVars, cacheVars, drawVars, keyVars, bindVars, emitVars,
                   helpers, draw_params>>

\* A build is given a key whose unique_hashes mark the enabled programs;
\* infos and functions hold the indices written so far.
InitBuild ==
    \E unique_hashes \in [ProgramIndices -> 0..1] :
        pipeline_build = [phase |-> "stages", unique_hashes |-> unique_hashes,
                 index |-> 0, infos |-> {}, functions |-> {}]

InitBuildSpec ==
    /\ IdleAlloc /\ InitCache /\ InitDraw /\ IdleKey /\ InitBind /\ IdleEmit
    /\ helpers = [phase |-> "idle"]
    /\ InitBuild
    /\ IdleParams

NextBuild == BuildStage \/ BuildPipeline

SpecBuild == InitBuildSpec /\ [][NextBuild]_vars

\* The command recorder under the calls of its users, in any order.
NextRecorder ==
    \/ CallBeginOrContinueRenderPass
    \/ CallRequireComputeEncoder
    \/ CallRequireBlitEncoder
    \/ CallEndEncoding
    \/ CallPresent
    \/ Submit
    \/ CallSetRenderPipelineState
    \/ CallSetBuffer

SpecRecorder == InitDrawSpec /\ [][NextRecorder]_vars

\* --------------------------------------------------------- MakeDrawParams
\* A u32 is kept as two limbs of 16 bits, <<high, low>>, and the operators
\* compute modulo 2^32 as the code does.
U32(n) == <<n \div 65536, n % 65536>>

\* v / k for a divisor below 2^15
DivU32(v, k) == <<v[1] \div k, ((v[1] % k) * 65536 + v[2]) \div k>>

\* v - k for k below 2^16: unsigned, the difference wraps
SubU32(v, k) ==
    IF v[2] >= k
    THEN <<v[1], v[2] - k>>
    ELSE <<(v[1] - 1) % 65536, v[2] + 65536 - k>>

\* v * k for k below 2^15: the bits above the 32nd are dropped
MulU32(v, k) ==
    <<(v[1] * k + ((v[2] * k) \div 65536)) % 65536, (v[2] * k) % 65536>>

\* The counts and topologies of the modelled draws.
Counts ==
    {<<high, low>> : high \in {0, 10922, 43690, 65535},
                     low \in {0, 1, 2, 3, 4, 8, 65535}}

Topologies == {"Quads", "QuadStrip", "Triangles"}

\* MaxwellDrawState: what MakeDrawParams reads of it
DrawStates ==
    [topology : Topologies,
     base_instance : {U32(0)},
     base_index : {U32(3)},
     vertex_buffer : [first : {U32(2)}, count : Counts],
     index_buffer : [first : {U32(1)}, count : {U32(0), U32(6), U32(65536)}]]

MakeDrawParams(state, num_instances, is_indexed) ==
    LET params ==
            [base_instance |-> state.base_instance,
             num_instances |-> num_instances,
             base_vertex |-> IF is_indexed THEN state.base_index
                             ELSE state.vertex_buffer.first,
             num_vertices |-> IF is_indexed THEN state.index_buffer.count
                              ELSE state.vertex_buffer.count,
             first_index |-> IF is_indexed THEN state.index_buffer.first
                             ELSE U32(0),
             is_indexed |-> is_indexed]
    IN  IF state.topology = "Quads"
        THEN [params EXCEPT
                 !.num_vertices = MulU32(DivU32(params.num_vertices, 4), 6),
                 !.base_vertex = U32(0),
                 !.is_indexed = TRUE]
        ELSE IF state.topology = "QuadStrip"
        THEN [params EXCEPT
                 !.num_vertices =
                     MulU32(DivU32(SubU32(params.num_vertices, 2), 2), 6),
                 !.base_vertex = U32(0),
                 !.is_indexed = TRUE]
        ELSE params

\* A draw calls MakeDrawParams with the draw state of the guest.
MakeParams ==
    /\ draw_params.phase = "args"
    /\ draw_params' =
           [draw_params EXCEPT
               !.phase = "made",
               !.params = MakeDrawParams(draw_params.draw_state,
                                         draw_params.num_instances,
                                         draw_params.is_indexed)]
    /\ UNCHANGED <<allocVars, cacheVars, drawVars, keyVars, bindVars, emitVars,
                   helpers, pipeline_build>>

InitParams ==
    \E state \in DrawStates, is_indexed \in BOOLEAN :
        draw_params = [phase |-> "args", draw_state |-> state,
                       num_instances |-> U32(1), is_indexed |-> is_indexed,
                       params |-> <<>>]

InitParamsSpec ==
    /\ IdleAlloc /\ InitCache /\ InitDraw /\ IdleKey /\ InitBind /\ IdleEmit
    /\ helpers = [phase |-> "idle"]
    /\ IdleBuild
    /\ InitParams

SpecParams == InitParamsSpec /\ [][MakeParams]_vars

\* The rules that define their result through EmitContext::Add, applied to
\* the instructions of the allocator's program: EmitUndefU32 and
\* EmitSelectU32 with immediate operands.
RuleArgs(op) == IF op = "SelectU32" THEN <<"true", "1u", "2u">> ELSE <<>>

EmitAdd ==
    /\ \E i \in NextInst, t \in VarTypes, op \in {"UndefU32", "SelectU32"} :
           Add(InstFormat(op), i, t, RuleArgs(op))
    /\ UNCHANGED <<program, settings, pos, operands, header,
                   num_safety_loop_vars, owner, inserted, outputs>>
    /\ UNCHANGED <<bindVars, restVars>>

\* The results are unused or read once.
InitAdd == Init /\ \A i \in Insts : use_count[i] <= 1

NextAdd == EmitPhiDefine \/ EmitConsume \/ EmitAdd

SpecAdd == InitAdd /\ [][NextAdd]_vars

\* ------------------------------------------------------------------ claims
\* An emitted instruction that still has remaining uses.
Live(i) == i \in emitted /\ HasUses(use_count[i])

\* The in-use flag of slot (t, idx), FALSE for a slot that does not exist.
InUse(trs, t, idx) ==
    /\ t \in DOMAIN trs
    /\ idx < Len(trs[t].var_use)
    /\ trs[t].var_use[idx + 1]

\* The smallest index of a tracker that is not in use.
LowestUnused(var_use) ==
    Min({v \in 0..Len(var_use) : v = Len(var_use) \/ ~var_use[v + 1]})

DefineOps == {"Define", "AddDefine", "PhiDefine"}

C2_LowestFreeIndex ==
    [][(/\ call'.op \in DefineOps
        /\ emitted' # emitted
        /\ HasUses(use_count[call'.inst]))
       => LET id == definition'[call'.inst]
              old == tracker[id.type].var_use
              new == tracker'[id.type].var_use
          IN /\ id.is_valid = 1
             /\ id.index = LowestUnused(old)
             /\ ret' = Representation(id.index, id.type)
             /\ (Len(new) > Len(old) => \A v \in 1..Len(old) : old[v])]_vars

\* A Define that took the freed slot 0 again while slot 1 was free too.
C2_Witness ==
    /\ call.op = "Define"
    /\ Live(call.inst)
    /\ definition[call.inst] = [is_valid |-> 1, type |-> "U32", index |-> 0]
    /\ ret = "u_0"
    /\ tracker["U32"].var_use = <<TRUE, FALSE>>
    /\ \E k \in Insts : k # call.inst /\ definition[k] = definition[call.inst]

C4_ConsumeDecrementsAndFrees ==
    [][/\ (call'.op = "Consume" /\ use_count' # use_count) =>
              LET i == call'.inst
                  id == definition[i]
              IN /\ use_count' = [use_count EXCEPT ![i] = use_count[i] - 1]
                 /\ InUse(tracker, id.type, id.index)
                 /\ (use_count'[i] = 0 <=> ~InUse(tracker', id.type, id.index))
                 /\ (use_count'[i] > 0 => tracker' = tracker)
                 /\ \A t \in VarTypes : \A v \in 0..(Len(tracker[t].var_use) - 1) :
                        <<t, v>> # <<id.type, id.index>> =>
                            InUse(tracker', t, v) = InUse(tracker, t, v)
                 /\ ret' = Representation(id.index, id.type)
       /\ (call'.op = "ConsumeImm" /\ <<call, ret>>' # <<call, ret>>) =>
              /\ use_count' = use_count
              /\ tracker' = tracker
              /\ definition' = definition]_vars

\* A consumption that left a positive count, and so a slot in use, after
\* another instruction's last consumption freed its slot.
C4_Witness ==
    /\ call.op = "Consume"
    /\ use_count[call.inst] = 1
    /\ InUse(tracker, definition[call.inst].type, definition[call.inst].index)
    /\ \E k \in emitted :
           /\ use_count[k] = 0
           /\ definition[k].is_valid = 1
           /\ ~InUse(tracker, definition[k].type, definition[k].index)

\* C5: Define of an instruction with zero uses allocates no slot, sets the
\* type's uses_temp flag and returns 't' + type prefix + '0'.
C5_DefineUnusedIsTemporary ==
    [][(/\ call'.op = "Define"
        /\ emitted' # emitted
        /\ ~HasUses(use_count[call'.inst]))
       => /\ \A t \in VarTypes :
                 /\ tracker'[t].var_use = tracker[t].var_use
                 /\ tracker'[t].num_used = tracker[t].num_used
                 /\ (t # call'.type => tracker'[t].uses_temp = tracker[t].uses_temp)
          /\ tracker'[call'.type].uses_temp
          /\ ret' = "t" \o TypePrefix(call'.type) \o "0"]_vars

\* An unused U32 result defined while a U32 slot is in use.
C5_Witness ==
    /\ call.op = "Define"
    /\ use_count[call.inst] = 0
    /\ call.type = "U32"
    /\ ret = "tu_0"
    /\ tracker["U32"].uses_temp
    /\ tracker["U32"].var_use = <<TRUE>>

\* C6: freeing an identifier that is invalid, or that has already been
\* freed, is detected and fails fast (the call throws).
C6_BadFreeIsDetected ==
    [][(/\ call'.op = "Consume"
        /\ use_count' # use_count
        /\ ~HasUses(use_count'[call'.inst])
        /\ \/ definition[call'.inst].is_valid = 0
           \/ ~InUse(tracker, definition[call'.inst].type,
                     definition[call'.inst].index))
       => fault' = "LogicError"]_vars

\* The part of C6 the code implements: an invalid identifier is refused.
C6_InvalidFreeIsDetected ==
    [][(/\ call'.op = "Consume"
        /\ use_count' # use_count
        /\ ~HasUses(use_count'[call'.inst])
        /\ definition[call'.inst].is_valid = 0)
       => fault' = "LogicError" /\ tracker' = tracker]_vars

\* A step that is a pipeline request (the guest's steps reset the record).
IsRequest(op) == last'.op = op /\ last' # last

\* C7: a request repeated for the same key with no change in between
\* returns the same pipeline object and builds nothing the second time.
C7_RepeatedRequestIsIdempotent ==
    [][(last'.seq = 2 /\ last' # last)
       => /\ last'.op = last.op /\ last'.key = last.key
          /\ last'.ret = last.ret
          /\ last'.build = "none"
          /\ pipelines' = pipelines]_vars

\* A second draw in a row that got the pipeline of the first.
C7_Witness ==
    /\ last.op = "graphics"
    /\ last.seq = 2
    /\ last.ret # 0
    /\ last.ret = graphics_cache[last.key]
    /\ last.build = "none"

\* C8: when the host compiler rejects the source of a stage, the request
\* returns null and nothing propagates out of the draw call.
C8_RejectionReturnsNull ==
    last.build = "rejected" => (~terminated /\ last.ret = 0)

\* C9: when translation or emission throws, the build is aborted, the
\* entry holds null and the request returns null; nothing escapes.
C9_ExceptionGivesNull ==
    last.build = "exception" =>
        /\ ~terminated
        /\ last.ret = 0
        /\ last.op = "graphics" =>
               /\ last.key \in DOMAIN graphics_cache
               /\ graphics_cache[last.key] = 0
        /\ last.op = "compute" =>
               /\ last.key \in DOMAIN compute_cache
               /\ compute_cache[last.key] = 0

\* A graphics build that threw while another key's pipeline was current.
C9_Witness ==
    /\ last.op = "graphics"
    /\ last.build = "exception"
    /\ current_pipeline # 0
    /\ pipelines[current_pipeline].key # last.key

\* C10: once the build for a key has failed, the entry stays null and a
\* request for the key returns null without building.
C10_FailedBuildIsCached ==
    [][/\ \A k \in DOMAIN graphics_cache :
              graphics_cache[k] = 0 =>
                  /\ k \in DOMAIN graphics_cache' /\ graphics_cache'[k] = 0
                  /\ (IsRequest("graphics") /\ last'.key = k) =>
                         /\ last'.ret = 0
                         /\ last'.build = "none"
                         /\ pipelines' = pipelines
       /\ \A k \in DOMAIN compute_cache :
              compute_cache[k] = 0 =>
                  /\ k \in DOMAIN compute_cache' /\ compute_cache'[k] = 0
                  /\ (IsRequest("compute") /\ last'.key = k) =>
                         /\ last'.ret = 0
                         /\ last'.build = "none"]_vars

\* A draw for a key whose build failed earlier, after other requests.
C10_Witness ==
    /\ last.op = "graphics"
    /\ last.seq = 1
    /\ last.build = "none"
    /\ last.ret = 0
    /\ last.key \in DOMAIN graphics_cache
    /\ graphics_cache[last.key] = 0
    /\ Len(pipelines) > 0

\* A step whose request ran a build that failed.
FailedBuild == last' # last /\ last'.build \in {"exception", "rejected"}

\* C11: a failed build for a key leaves the entry of every other key, in
\* both caches, and every pipeline object as they were.
C11_FailedBuildTouchesOnlyItsKey ==
    [][FailedBuild =>
          /\ pipelines' = pipelines
          /\ current_pipeline' = current_pipeline
          /\ IF last'.op = "graphics"
             THEN /\ compute_cache' = compute_cache
                  /\ DOMAIN graphics_cache' = DOMAIN graphics_cache \cup {last'.key}
                  /\ \A k \in DOMAIN graphics_cache \ {last'.key} :
                         graphics_cache'[k] = graphics_cache[k]
             ELSE /\ graphics_cache' = graphics_cache
                  /\ DOMAIN compute_cache' = DOMAIN compute_cache \cup {last'.key}
                  /\ \A k \in DOMAIN compute_cache \ {last'.key} :
                         compute_cache'[k] = compute_cache[k]]_vars

\* A graphics build has failed while another key holds a pipeline and a
\* third holds an earlier failure.
C11_Witness ==
    /\ last.op = "graphics"
    /\ last.build = "exception"
    /\ \E k \in DOMAIN graphics_cache : k # last.key /\ graphics_cache[k] # 0
    /\ \E k \in DOMAIN compute_cache : compute_cache[k] = 0

\* The reference: the full key lookup alone. The entry of the key is
\* selected and made current; a null entry selects nothing.
ReferenceSelects(key) == graphics_cache[key]

C13_ReturnedPipelineIsBuilt ==
    (last.op = "graphics" /\ last.ret # 0) => pipelines[last.ret].pipeline_state

\* C14: a pipeline created while no framebuffer was available has its host
\* pipeline state made once a draw requests it with a framebuffer bound.
C14_UsedWithFramebufferGetsBuilt ==
    (/\ last.op = "graphics"
     /\ draw # "none"
     /\ framebuffer
     /\ last.key \in DOMAIN graphics_cache
     /\ graphics_cache[last.key] # 0)
        => pipelines[graphics_cache[last.key]].made

\* C15: a draw made while no framebuffer is bound is skipped: no draw
\* command is encoded and no exception leaves Draw.
C15_NoFramebufferSkipsDraw ==
    (draw # "none" /\ ~framebuffer) => (draw = "skipped" /\ ~escaped)

C17_KeyEqualityAgreesWithHash ==
    cmp.phase = "done" =>
        /\ cmp.eq_aa
        /\ cmp.eq_ab = cmp.eq_ba
        /\ cmp.eq_ab => cmp.hash_a = cmp.hash_b

\* Two graphics keys whose storage differs behind the meaningful prefix
\* have compared equal.
C17_Witness ==
    /\ cmp.phase = "done"
    /\ cmp.kind = "graphics"
    /\ cmp.eq_ab
    /\ cmp.a # cmp.b

\* The five values of a launch description that the compute key holds.
KeyValues(l) ==
    <<ComputeShader(l), l.shared_alloc,
      l.block_dim_x, l.block_dim_y, l.block_dim_z>>

\* C18: two launch descriptions that agree on the shader's hash, the
\* shared memory size and the three block dimensions give keys that
\* compare equal and hash alike, whatever else differs, and so select the
\* same compute cache entry.
C18_ComputeKeyDependsOnFiveValues ==
    (/\ cmp.phase = "done"
     /\ cmp.kind = "compute"
     /\ KeyValues(cmp.a) = KeyValues(cmp.b))
        => /\ ComputeKey(cmp.a) = ComputeKey(cmp.b)
           /\ cmp.eq_ab /\ cmp.eq_ba
           /\ cmp.hash_a = cmp.hash_b

\* Two launches that differ only in a register outside the key have been
\* compared.
C18_Witness ==
    /\ cmp.phase = "done"
    /\ cmp.kind = "compute"
    /\ KeyValues(cmp.a) = KeyValues(cmp.b)
    /\ cmp.a.grid_dim_x # cmp.b.grid_dim_x
    /\ cmp.eq_ab

\* The sum of the element counts of a stage's descriptors of a class.
RECURSIVE SumCounts(_, _)
SumCounts(info, class) ==
    IF info = <<>>
    THEN 0
    ELSE (IF Head(info).class = class THEN Head(info).count ELSE 0)
         + SumCounts(Tail(info), class)

\* The entries of the layout that belong to a stage.
StageLayout(l, stage) == SelectSeq(l, LAMBDA e : e.stage = stage)

\* The descriptors a stage's layout entries were made from.
LaidOut(l) == [i \in DOMAIN l |-> [class |-> l[i].class, count |-> l[i].count]]

\* C19: emitting one stage advances every Bindings counter by exactly the
\* sum of the counts of the stage's descriptors of that class, each
\* descriptor taking slots once, the classes in the order constant
\* buffers, storage buffers, images, textures.
C19_StageAdvancesBySum ==
    [][\A index \in stages' \ stages :
           LET mine == StageLayout(layout', index)
               info == LaidOut(mine)
           IN /\ info \in Infos
              /\ \A class \in DOMAIN bindings :
                     bindings'[class] - bindings[class] = SumCounts(info, class)]_vars

\* Two half-open slot ranges that share no slot.
DisjointRanges(e, f) ==
    e.slot + e.count <= f.slot \/ f.slot + f.count <= e.slot

\* C20: the Bindings counters never decrease, and within a class the slot
\* ranges given to descriptors, over all the stages of the build, are
\* pairwise disjoint.
C20_SlotsNeverOverlap ==
    [][/\ \A class \in DOMAIN bindings : bindings'[class] >= bindings[class]
       /\ \A i, j \in DOMAIN layout' :
              (i < j /\ layout'[i].class = layout'[j].class)
                  => DisjointRanges(layout'[i], layout'[j])
       /\ \A i \in DOMAIN layout' :
              layout'[i].slot + layout'[i].count <= bindings'[layout'[i].class]]_vars

\* Both stages have been emitted, each with an array descriptor of the
\* same class.
C20_Witness ==
    /\ stages = GuestPrograms
    /\ \E i, j \in DOMAIN layout :
           /\ layout[i].stage # layout[j].stage
           /\ layout[i].class = layout[j].class
           /\ layout[i].count > 1
           /\ layout[j].count > 1


PhiOf(l, k) == InstId("p", l, k, 0)

\* The step consumes an operand whose name goes into the emitted text
\* (EmitPhi drops the names of the operands it consumes).
EmitsOperand ==
    /\ pos.phase = "code"
    /\ use_count' # use_count
    /\ ~(AtInst /\ program.insts[CurInst].op = "Phi")

\* C22: in a program with a loop-carried value (defined before a loop,
\* redefined inside it, used after it) the value read after the loop is
\* the phi's variable, it is read exactly once, and no emitted operand
\* names a slot that has been freed and given to another instruction.
C22_LoopCarriedValueIsRead ==
    [][program.shape.post =>
        /\ pos.phase = "code" => fault' = "none"
        /\ EmitsOperand =>
               /\ definition[call'.inst].is_valid = 1
               /\ ret' = RepresentationId(definition[call'.inst])
               /\ ret' \in DOMAIN owner
               /\ owner[ret'] = call'.inst
        /\ (pos.phase = "code" /\ CurNode.type = "Repeat" /\ pos' # pos) =>
               \A k \in 1..program.shape.phis :
                   use_count'[PhiOf(pos.node \div 5, k)] = 1
        /\ (AtInst /\ CurInst.n = "z" /\ pos' # pos) =>
               LET phi == PhiOf(CurInst.l, CurInst.k)
               IN /\ use_count[phi] = 0
                  /\ owner[RepresentationId(definition[phi])] = phi
                  /\ code' = Append(code,
                                    Format("{}?{}:{};",
                                           <<RepresentationId(definition[Cond]),
                                             RepresentationId(definition[phi]),
                                             "1u">>))]_vars

\* The end of the code of a program with two loops, where the first
\* loop's phi was read after that loop from u_1, the slot of the value
\* defined before the loop was taken by the value redefined inside it, and
\* the second loop has used the slots again.
C22_Witness ==
    /\ pos.phase = "variables"
    /\ program.shape = [phis |-> 1, loops |-> 2, imm |-> FALSE, post |-> TRUE,
                        nodes |-> <<>>]
    /\ \E n, m \in DOMAIN code :
           /\ n < m
           /\ code[n] = "u_0=b_0?u_1:1u;"
           /\ code[m] = "b_0?u_1:1u;"
           /\ \E q \in DOMAIN code : q > m /\ code[q] = "u_0=b_0?u_1:1u;"
    /\ owner["u_1"] = PhiOf(2, 1)

\* The phi moves Precolor has inserted.
InsertedMoves == {n \in DOMAIN inserted : inserted[n].op = "PhiMove"}

\* The phi and the argument position an inserted instruction belongs to.
PhiOfInserted(e) == PhiOf(e.id.l, e.id.k)

\* C23 as stated: for every phi argument the phi move is inserted at the
\* end of the predecessor block, after any reference pseudo-instructions
\* already present there.
C23_MoveGoesAfterReferences ==
    \A n \in InsertedMoves :
        /\ inserted[n].block
               = program.insts[PhiOfInserted(inserted[n])].phi_blocks[inserted[n].id.a]
        /\ inserted[n].point = Len(inserted[n].before)

\* C23 as amended: for every phi argument the phi move is inserted into
\* the predecessor block right behind its last instruction that is not a
\* reference pseudo-instruction, so in front of the references that end the
\* block.
C23_MoveGoesBeforeTrailingReferences ==
    \A n \in InsertedMoves :
        LET e == inserted[n]
        IN /\ e.block = program.insts[PhiOfInserted(e)].phi_blocks[e.id.a]
           /\ e.args = <<InstValue(PhiOfInserted(e)),
                         program.insts[PhiOfInserted(e)].args[e.id.a]>>
           /\ \A m \in (e.point + 1)..Len(e.before) : e.before[m].n = "Reference"
           /\ e.point >= 1 => e.before[e.point].n # "Reference"

\* The move of a second phi went into a block that ended with the first
\* phi's reference, in front of that reference.
C23_Witness ==
    \E n \in InsertedMoves :
        /\ inserted[n].point < Len(inserted[n].before)
        /\ inserted[n].before[Len(inserted[n].before)].n = "Reference"
        /\ program.blocks[inserted[n].block][inserted[n].point + 1] = inserted[n].id

\* An emission has returned and its context has not been replaced yet.
Finished == Len(outputs) >= 1 /\ pos.phase \in {"start", "done"}

Repeats == {j \in DOMAIN program.syntax_list :
               program.syntax_list[j].type = "Repeat"}

\* The text of a Repeat node whose guard counter is loopN, and of one
\* without a guard counter.
GuardedRepeat(N) ==
    "if(--loop" \o ToString(N) \o "<0 || !"
        \o RepresentationId(definition[Cond]) \o "){break;}}"

PlainRepeat == "if(!" \o RepresentationId(definition[Cond]) \o "){break;}}"

RepeatLines ==
    {n \in DOMAIN code :
        \/ code[n] = PlainRepeat
        \/ \E N \in 0..Len(code) : code[n] = GuardedRepeat(N)}

LoopDeclarations ==
    {h \in DOMAIN header :
        Len(header[h]) >= 8 /\ SubSeq(header[h], 1, 8) = "int loop"}

\* The loops that are open after line n of the code.
OpenLoops(n) ==
    Cardinality({m \in 1..n : code[m] = "for(;;){"})
    - Cardinality({m \in 1..n : m \in RepeatLines})

\* C24: with loop safety checks enabled every Repeat node gets its own
\* guard counter loopN, N counting from 0 in emission order, every counter
\* is declared exactly once with the initial value 0x2000, and a counter
\* that runs out breaks out of the enclosing loop only; with the checks
\* disabled no counter is referenced or declared.
C24_LoopGuardCounters ==
    Finished =>
        /\ Cardinality(RepeatLines) = Cardinality(Repeats)
        /\ \A n \in RepeatLines : OpenLoops(n - 1) >= 1
        /\ IF settings.disable_shader_loop_safety_checks
           THEN /\ \A n \in RepeatLines : code[n] = PlainRepeat
                /\ LoopDeclarations = {}
                /\ num_safety_loop_vars = 0
           ELSE /\ \A n \in RepeatLines :
                       code[n] = GuardedRepeat(
                                     Cardinality({m \in RepeatLines : m < n}))
                /\ Cardinality(LoopDeclarations) = Cardinality(Repeats)
                /\ \A N \in 0..(Cardinality(Repeats) - 1) :
                       Cardinality({h \in DOMAIN header :
                                       header[h] = "int loop" \o ToString(N)
                                                       \o "=0x2000;"}) = 1

\* A finished emission of two loops with the checks enabled: loop0 guards
\* the first, loop1 the second, both are declared.
C24_Witness ==
    /\ Finished
    /\ ~settings.disable_shader_loop_safety_checks
    /\ \E n, m \in DOMAIN code :
           /\ n < m
           /\ code[n] = "if(--loop0<0 || !b_0){break;}}"
           /\ code[m] = "if(--loop1<0 || !b_0){break;}}"
    /\ \E h \in DOMAIN header : header[h] = "int loop1=0x2000;"

\* The constant buffers a context has declared, by either DefineInputs.
Declared == helpers.input_str \o helpers.inputs

Flagged ==
    {i - 1 : i \in {j \in DOMAIN helpers.info.nvn_buffer_used :
                        helpers.info.nvn_buffer_used[j]}}

\* The address ranges and addresses the helpers are called with.
Ranges == [0..(Len(helpers.info.nvn_buffer_used) - 1) ->
               [base : 0..1, size : 1..2]]

Holding(ranges, addr) ==
    {i \in Flagged : addr >= ranges[i].base
                     /\ addr < ranges[i].base + ranges[i].size}

Lowest(S) == CHOOSE i \in S : \A j \in S : i <= j

Highest(S) == CHOOSE i \in S : \A j \in S : i >= j

\* Every helper has one guard for exactly the flagged buffers, and a call
\* none of whose guards matches loads zero or stores nothing.
GuardedBuffers(f) ==
    /\ Len(f.guards) = Cardinality(Flagged)
    /\ {f.guards[g].ssbo : g \in DOMAIN f.guards} = Flagged
    /\ \A ranges \in Ranges : \A addr \in 0..1 :
           Holding(ranges, addr) = {} =>
               LET c == Call(f.guards, f.otherwise, addr, ranges)
               IN /\ c.ssbo = -1
                  /\ IF SubSeq(f.name, 1, 4) = "Load"
                     THEN c.statement \in {"return 0u;", "return uint2(0);",
                                           "return uint4(0);"}
                     ELSE c.statement = ""

\* C26 as stated: exactly the flagged storage buffers get an address-range
\* guard, the guards are tried in descending buffer-index order (of the
\* buffers holding an address the highest one is accessed), and when no
\* guard matches a load returns zero and a store does nothing.
C26_GuardsTriedDescending ==
    \A x \in DOMAIN helpers.functions :
        LET f == helpers.functions[x]
        IN /\ GuardedBuffers(f)
           /\ \A a, b \in DOMAIN f.guards :
                  a < b => f.guards[a].ssbo > f.guards[b].ssbo
           /\ \A ranges \in Ranges : \A addr \in 0..1 :
                  Holding(ranges, addr) /= {} =>
                      Call(f.guards, f.otherwise, addr, ranges).ssbo
                          = Highest(Holding(ranges, addr))

\* C26: exactly the flagged storage buffers get an address-range guard,
\* the guards are tried in ascending buffer-index order (of the buffers
\* holding an address the lowest one is accessed, at the address's offset
\* in it), and when no guard matches a load returns zero and a store does
\* nothing.
C26_GuardsTriedAscending ==
    \A x \in DOMAIN helpers.functions :
        LET f == helpers.functions[x]
        IN /\ GuardedBuffers(f)
           /\ \A a, b \in DOMAIN f.guards :
                  a < b => f.guards[a].ssbo < f.guards[b].ssbo
           /\ \A ranges \in Ranges : \A addr \in 0..1 :
                  Holding(ranges, addr) /= {} =>
                      LET c == Call(f.guards, f.otherwise, addr, ranges)
                          i == Lowest(Holding(ranges, addr))
                      IN /\ c.ssbo = i
                         /\ c.offset = addr - ranges[i].base
                         /\ c.statement = "access"

\* The helpers of a stage with two storage buffers, both flagged, have
\* been written: each has the guard of buffer 0 in front of buffer 1's.
C26_Witness ==
    /\ helpers.phase = "constructed"
    /\ helpers.info.nvn_buffer_used = <<TRUE, TRUE>>
    /\ Len(helpers.functions) = 6
    /\ helpers.functions[4].name = "LoadGlobal32"
    /\ helpers.functions[4].guards[1].base = "ssbo_addr0"
    /\ helpers.functions[4].guards[2].base = "ssbo_addr1"

\* The phis Precolor has processed, and the places in the insertion log
\* (among of_phi) of the instructions of a kind added to a block.
Precolored ==
    {id \in DOMAIN program.insts :
         /\ program.insts[id].op = "Phi"
         /\ \E n \in DOMAIN inserted : inserted[n].args[1] = InstValue(id)}

AddedFor(of_phi, block, op, args) ==
    {n \in of_phi :
         /\ inserted[n].op = op
         /\ inserted[n].args = args
         /\ inserted[n].block = block}

\* C27: for each argument of a processed phi exactly one
\* PhiMove(phi, argument) and exactly one Reference(phi) have been added to
\* that argument's predecessor block and are in it, nothing else was added
\* for the phi, and every PhiMove of the phi was inserted before any of its
\* References.
C27_MovesThenReferences ==
    \A phi \in Precolored :
        LET inst == program.insts[phi]
            of_phi == {n \in DOMAIN inserted :
                           inserted[n].args[1] = InstValue(phi)}
        IN /\ \A a \in DOMAIN inst.args :
                  LET moves == AddedFor(of_phi, inst.phi_blocks[a], "PhiMove",
                                        <<InstValue(phi), inst.args[a]>>)
                      refs == AddedFor(of_phi, inst.phi_blocks[a], "Reference",
                                       <<InstValue(phi)>>)
                      block == program.blocks[inst.phi_blocks[a]]
                  IN /\ Cardinality(moves) = 1
                     /\ Cardinality(refs) = 1
                     /\ \A n \in moves \cup refs :
                            \E j \in DOMAIN block : block[j] = inserted[n].id
           /\ Cardinality(of_phi) = 2 * Len(inst.args)
           /\ \A m, r \in of_phi :
                  inserted[m].op = "PhiMove" /\ inserted[r].op = "Reference"
                      => m < r

\* Precolor has processed a phi of two arguments: two moves, then two
\* references.
C27_Witness ==
    /\ pos.phase # "precolor"
    /\ Len(inserted) >= 4
    /\ inserted[1].op = "PhiMove" /\ inserted[2].op = "PhiMove"
    /\ inserted[3].op = "Reference" /\ inserted[4].op = "Reference"
    /\ inserted[1].block # inserted[2].block

\* A step in which AddDefine or PhiDefine has defined inst.
DefinesByAdd(inst) ==
    /\ inst \notin emitted
    /\ emitted' = emitted \cup {inst}
    /\ call'.op \in {"AddDefine", "PhiDefine"}
    /\ call'.inst = inst

\* C28: AddDefine and PhiDefine on an instruction whose result is unused
\* return the empty string, leave every tracker (slots, num_used,
\* uses_temp) and the instruction's definition as they were, and the
\* statement EmitContext::Add then appends is the rule's statement without
\* its leading "{}=".
C28_UnusedResultHasNoTarget ==
    [][\A inst \in Insts :
           DefinesByAdd(inst) /\ ~HasUses(use_count[inst]) =>
               /\ ret' = ""
               /\ tracker' = tracker
               /\ definition' = definition
               /\ code' # code =>
                      code' \in {Append(code, "0u;"),
                                 Append(code, "true?1u:2u;")}]_vars

\* Add has emitted the select of an unused result: the statement stands
\* alone and the instruction has no definition.
C28_Witness ==
    /\ call.op = "AddDefine"
    /\ use_count[call.inst] = 0
    /\ ret = ""
    /\ Len(code) >= 1
    /\ code[Len(code)] = "true?1u:2u;"
    /\ definition[call.inst] = NullId

\* The places of a declaration of a variable called name among the
\* declarations header_.
DeclarationsOf(header_, name) ==
    {n \in DOMAIN header_ :
         \E t \in VarTypes :
             header_[n] = GetMslType(t) \o " " \o name \o "="
                              \o GetMslType(t) \o "(0);"}

\* The name the last call returned, if it was a definition's, the
\* temporaries of the types that use one and the names of the slots ever
\* allocated to an instruction are declared exactly once each.
DeclaredOnce ==
    LET header_ == DefineVariables(tracker, 0)
    IN /\ (call.op \in DefineOps /\ fault = "none" /\ ret # "")
              => Cardinality(DeclarationsOf(header_, ret)) = 1
       /\ \A t \in DOMAIN tracker :
              tracker[t].uses_temp
                  => Cardinality(DeclarationsOf(header_,
                                     "t" \o Representation(0, t))) = 1
       /\ \A i \in DOMAIN definition :
              definition[i].is_valid = 1
                  => Cardinality(DeclarationsOf(header_,
                                     RepresentationId(definition[i]))) = 1

\* C29: a name Define, AddDefine or PhiDefine returns is declared exactly
\* once by DefineVariables, then and later: for every type num_used is the
\* number of slots ever created, never decreases and is greater than the
\* index of every slot allocated to an instruction, uses_temp is never
\* cleared and the type's temporary is declared whenever it is set.
C29_ReturnedNamesAreDeclaredOnce ==
    /\ []DeclaredOnce
    /\ [][/\ \A t \in DOMAIN tracker :
                 /\ tracker'[t].num_used = Len(tracker'[t].var_use)
                 /\ tracker'[t].num_used >= tracker[t].num_used
                 /\ tracker[t].uses_temp => tracker'[t].uses_temp
          /\ \A i \in DOMAIN definition' :
                 definition'[i].is_valid = 1
                     => definition'[i].index
                            < tracker'[definition'[i].type].num_used]_vars

\* Define has returned the temporary of an unused result while two slots
\* of its type exist, one of them free again: the declarations are the
\* temporary's and the two slots'.
C29_Witness ==
    /\ call.op = "Define"
    /\ ret = "tu_0"
    /\ tracker["U32"].var_use = <<FALSE, TRUE>>
    /\ DefineVariables(tracker, 0)
           = <<"uint tu_0=uint(0);", "uint u_0=uint(0);", "uint u_1=uint(0);">>

\* EmitCode has returned: every node of the syntax list is emitted.
CodeEmitted == pos.phase = "variables" /\ fault = "none"

\* C30: at the end of emitting a program in which every use of every
\* instruction is consumed exactly once, every slot of every type is free
\* again and the use count of every instruction is zero.
C30_NoSlotLeaks ==
    CodeEmitted =>
        /\ \A t \in DOMAIN tracker :
               \A v \in DOMAIN tracker[t].var_use : ~tracker[t].var_use[v]
        /\ \A id \in DOMAIN use_count : use_count[id] = 0

\* The code of a program with two phis in a loop is emitted: four slots of
\* type U32 and one of type U1 were in use and are free.
C30_Witness ==
    /\ CodeEmitted
    /\ tracker["U32"].var_use = <<FALSE, FALSE, FALSE, FALSE>>
    /\ tracker["U1"].var_use = <<FALSE>>
    /\ \E id \in DOMAIN program.insts :
           program.insts[id].op = "Phi" /\ definition[id].is_valid = 1

\* The number of the first n characters of text that are c.
Count(text, c, n) == Cardinality({i \in 1..n : SubSeq(text, i, i) = c})

\* The brace depth behind the first n characters of text.
Depth(text, n) == Count(text, "{", n) - Count(text, "}", n)

\* At no point of the lines is the brace depth negative, and behind them
\* it is zero.
Balanced(lines) ==
    LET behind[n \in 0..Len(lines)] ==
            IF n = 0 THEN 0
            ELSE behind[n - 1] + Depth(lines[n], Len(lines[n]))
    IN /\ behind[Len(lines)] = 0
       /\ \A n \in DOMAIN lines : \A i \in 0..Len(lines[n]) :
              behind[n - 1] + Depth(lines[n], i) >= 0

\* EmitCode is at a node of one of the types.
AtNode(types) == pos.phase = "code" /\ CurNode.type \in types

\* C31: for a syntax list with properly nested If/EndIf and Loop/Repeat
\* the body EmitCode has written has balanced braces (at no point of the
\* text is the depth negative, at its end it is zero), a Break with an
\* immediate false condition emits nothing, and Return and Unreachable
\* both emit "return;".
C31_BalancedBraces ==
    /\ [](CodeEmitted => Balanced(code))
    /\ [][/\ (AtNode({"Break"}) /\ CurNode.cond = ImmU1(0))
                 => code' = code
          /\ AtNode({"Return", "Unreachable"})
                 => code' = Append(code, "return;")]_vars

\* The code of a program is emitted whose loop is followed by a loop with
\* a Break on immediate false and a conditional with an Unreachable.
C31_Witness ==
    /\ CodeEmitted
    /\ program.shape.nodes
           = <<Node("Loop", 0, Imm1), Node("Break", 0, ImmU1(0)),
               Node("Repeat", 0, InstValue(Cond)),
               Node("Unreachable", 0, Imm1)>>
    /\ ~settings.disable_shader_loop_safety_checks
    /\ SubSeq(code, Len(code) - 3, Len(code))
           = <<"for(;;){", "if(--loop1<0 || !b_0){break;}}", "return;",
               "return;">>

\* The declarations written into the signatures of main_, which are those
\* of DefineInputs of emit_msl.cpp.
Signature == {i \in DOMAIN layout : layout[i].by = "EmitMSL"}

\* C32: over all stages emitted with the shared Bindings, no two resource
\* declarations of the signatures carry the same index within one
\* attribute kind: [[buffer(n)]] among constant and storage buffers,
\* [[texture(n)]] among images and textures.
C32_UniqueAttributeIndices ==
    \A i, j \in Signature :
        (i < j /\ AttributeKind(layout[i].class) = AttributeKind(layout[j].class))
            => layout[i].slot # layout[j].slot

\* The declarations of a stage's descriptors of a class in the signature
\* of its main_, in descriptor order.
Declarations(stage, class) ==
    SelectSeq(layout, LAMBDA e : /\ e.stage = stage /\ e.class = class
                                 /\ e.by = "EmitMSL")

\* C33: after EmitMSL for a stage the context's textures and images tables
\* hold exactly one entry per descriptor, in descriptor order, and the
\* binding of entry i is the slot of descriptor i's declaration in the
\* signature of main_.
C33_TablesMatchSignature ==
    \A stage \in stages : \A class \in {"image", "texture"} :
        LET table == Table(layout, stage, class)
            declared == Declarations(stage, class)
        IN /\ Len(table) = Len(declared)
           /\ \A i \in DOMAIN table : table[i].binding = declared[i].slot

\* C34: a pipeline CurrentGraphicsPipeline returns is current_pipeline and
\* an entry of the graphics cache; when RefreshStages fails
\* current_pipeline is reset to null and null is returned; when the build
\* of the slow path fails null is returned and current_pipeline still
\* points at the pipeline that was current before.
C34_ReturnedPipelineIsCurrent ==
    [][IsRequest("graphics") =>
          /\ last'.ret # 0 =>
                 /\ last'.ret = current_pipeline'
                 /\ \E k \in DOMAIN graphics_cache' :
                        graphics_cache'[k] = last'.ret
          /\ ~RefreshStages(regs, graphics_key).ok =>
                 current_pipeline' = 0 /\ last'.ret = 0
          /\ last'.build \in {"exception", "rejected"} =>
                 /\ ~terminated'
                 /\ last'.ret = 0
                 /\ current_pipeline' = current_pipeline]_vars


\* C35: during a graphics pipeline build every program slot with a non-zero
\* hash is mapped to a stage index, its program index minus one, within
\* 0..NUM_STAGES-1, so infos and functions are only written in bounds.
C35_StageIndicesInBounds ==
    pipeline_build.phase # "idle" =>
        /\ pipeline_build.infos \subseteq 0..(NUM_STAGES - 1)
        /\ pipeline_build.functions \subseteq 0..(NUM_STAGES - 1)


\* C36: after CommandRecorder::SetBuffer(stage, buffer, index, offset) the
\* binding recorded for (stage, index) holds exactly that buffer and that
\* offset, and a binding whose buffer or offset changed is marked as
\* needing an update, so that the next BeginOrContinueRenderPass sets it on
\* the encoder.
C36_SetBufferRecordsBinding ==
    [][/\ recorder'.call.op = "SetBuffer" =>
              LET args == recorder'.call.args
                  slot == <<args[1], args[3]>>
                  before == recorder.buffers[slot]
                  after == recorder'.buffers[slot]
              IN  /\ after.buffer = args[2]
                  /\ after.offset = args[4]
                  /\ (before.buffer # args[2] \/ before.offset # args[4])
                         => after.needs_update
       /\ recorder'.call.op = "BeginOrContinueRenderPass" =>
              \A slot \in BufferSlots :
                  (recorder.buffers[slot].needs_update
                       /\ recorder.buffers[slot].buffer # 0)
                      => recorder'.arguments[slot] =
                             <<recorder.buffers[slot].buffer,
                               recorder.buffers[slot].offset>>]_vars

\* C37: at most one encoder is active and an active encoder implies a live
\* command buffer; render_state.render_pass is non-null only while a
\* render encoder for that pass is active; switching the encoder type or
\* calling Submit ends the previous encoder first and, for a render
\* encoder, clears the recorded render pass and pipeline state; after
\* BeginOrContinueRenderPass(rp) with rp non-null a render encoder for rp
\* is active.
RecorderConsistent ==
    /\ recorder.open_encoders <= 1
    /\ (recorder.encoder # "none") <=> (recorder.open_encoders = 1)
    /\ recorder.encoder # "none" => recorder.command_buffer # 0
    /\ recorder.render_pass # 0 =>
           /\ recorder.encoder = "render"
           /\ recorder.descriptor = recorder.render_pass

C37_RecorderInvariants ==
    /\ []RecorderConsistent
    /\ [][/\ (recorder.encoder = "render"
                 /\ (recorder'.encoder # "render"
                        \/ recorder'.call.op = "Submit")) =>
                 /\ recorder'.render_pass = 0
                 /\ recorder'.pipeline_state = 0
          /\ recorder'.call.op = "Submit" =>
                 /\ recorder'.encoder = "none"
                 /\ recorder'.open_encoders = 0
          /\ recorder'.call.op = "BeginOrContinueRenderPass" =>
                 /\ recorder'.encoder = "render"
                 /\ recorder'.open_encoders = 1
                 /\ recorder'.descriptor = recorder'.call.args[1]
                 /\ recorder'.render_pass = recorder'.call.args[1]]_vars

\* A compute encoder has replaced the render encoder of a pass on which a
\* buffer had been set.
C37_Witness ==
    /\ recorder.call.op = "RequireComputeEncoder"
    /\ recorder.encoder = "compute"
    /\ recorder.render_pass = 0
    /\ \E slot \in BufferSlots : recorder.arguments[slot] # <<0, 0>>


\* The number read as the vertex count.
CountRead ==
    IF draw_params.is_indexed
    THEN draw_params.draw_state.index_buffer.count
    ELSE draw_params.draw_state.vertex_buffer.count

\* The quads of n vertices: n / 4 separate quads, or a strip of (n - 2) / 2
\* quads, none below two vertices.
QuadsOf(topology, n) ==
    IF topology = "Quads"
    THEN DivU32(n, 4)
    ELSE IF n[1] = 0 /\ n[2] < 2 THEN U32(0) ELSE DivU32(SubU32(n, 2), 2)

\* 6 * v fits 32 bits.
SixFits(v) == v[1] * 6 + ((v[2] * 6) \div 65536) < 65536

\* C38: MakeDrawParams converts quad topologies to indexed triangle draws
\* with base vertex 0 and 6 vertices per quad: (n / 4) * 6 for Quads and 6
\* times the number of quads in the strip for QuadStrip, for every 32-bit
\* vertex count n, including n < 2, without unsigned wrap-around.
C38_QuadsBecomeTriangles ==
    (/\ draw_params.phase = "made"
     /\ draw_params.draw_state.topology \in {"Quads", "QuadStrip"}) =>
        LET quads == QuadsOf(draw_params.draw_state.topology, CountRead) IN
        /\ draw_params.params.is_indexed
        /\ draw_params.params.base_vertex = U32(0)
        /\ SixFits(quads)
        /\ draw_params.params.num_vertices = MulU32(quads, 6)

=============================================================================
